---- MODULE Spec2Model ----
(***************************************************************************)
(* A model of juju/bundlechanges: the change set (ids, requires edges and  *)
(* the requirement sort), the handlers that populate it from a bundle, and  *)
(* the machine-map inference over an existing model.                        *)
(*                                                                          *)
(* Strings that the Go code only builds and compares (change ids,           *)
(* "$"-placeholders) are TLA+ strings built the same way.  Strings that the *)
(* code parses with an imported library (placement directives, machine      *)
(* ids) are kept in their parsed form.                                      *)
(***************************************************************************)
EXTENDS Integers, Sequences, FiniteSets, TLC

VARIABLES
    data,           \* the bundle (charm.BundleData) given to FromData
    model,          \* the existing deployment (Model) the plan is meant for
    changes,        \* changeset.changes: the changes in insertion order
    addedServices,  \* FromData: service name -> id of its deploy change
    addedMachines,  \* FromData: bundle machine -> id of its addMachines change
    pc,             \* the position of the run
    queue,          \* sorted(): the local slice `changes` still to be placed
    records,        \* sorted(): the ids already listed (records[id] = true)
    sorted,         \* sorted(): the local slice `sorted`, the output
    machineMaps,    \* the MachineMap left by each run of InferMachineMap
    calls,          \* per planning call: its position in the allocator of the
                    \* Model, the value it read and the names it was given
    diff,           \* the BundleDiff that BuildDiff returned, nil before
    returned        \* the last call of a method of the Model or of an
                    \* Application and what it returned, nil before

inputVars == <<data, model>>
handlerVars == <<addedServices, addedMachines>>
sortVars == <<queue, records, sorted>>
inferVars == <<machineMaps>>
allocVars == <<calls>>
diffVars == <<diff>>
callVars == <<returned>>
vars == <<data, model, changes, addedServices, addedMachines, pc, queue,
          records, sorted, machineMaps, calls, diff, returned>>

(***************************************************************************)
(* Bounds of the model.                                                     *)
(***************************************************************************)
\* The number of changes added to a change set in the sort specification.
MaxChanges == 3
\* The number of requires edges in a change set in the sort specification.
MaxEdges == 3
\* The number of units of a service of a bundle.
MaxUnits == 2
\* The number of placement directives of a bundle.
MaxDirectives == 2
\* The number of runs of InferMachineMap that are compared.
InferRuns == 2
\* The highest number of a unit or a machine of a model.
MaxNumber == 10
\* The number of calls of the allocator by one planning call.
MaxCalls == 2

(***************************************************************************)
(* Helpers over sequences.                                                  *)
(***************************************************************************)
Range(s) == {s[i] : i \in 1..Len(s)}

\* The set of positions of s that hold x.
Positions(s, x) == {i \in 1..Len(s) : s[i] = x}

(***************************************************************************)
(* Changes.  changeInfo carries id, requires and method; Params carries    *)
(* the per-method parameters.                                               *)
(***************************************************************************)
NoParams ==
    [Charm |-> "", Service |-> "", Id |-> "", EntityType |-> "",
     ContainerType |-> "", ParentId |-> "", Endpoint1 |-> "",
     Endpoint2 |-> "", To |-> "", Series |-> "", Annotations |-> <<>>]

\* new<Method>Change(params, requires...): a change that has no id yet.
newChange(method, params, requires) ==
    [id |-> "", method |-> method, requires |-> requires, Params |-> params]

\* fmt.Sprintf("%s-%d", change.Method(), len(cs.changes))
changeId(method, n) == method \o "-" \o ToString(n)

\* A mutant of add: the id counts from one.
addOffByOne(cs, change) ==
    Append(cs, [change EXCEPT !.id = changeId(change.method, Len(cs) + 1)])

\* changeset.add: set the id from the method and the number of changes
\* already in the set, then append.
add(cs, change) ==
    Append(cs, [change EXCEPT !.id = changeId(change.method, Len(cs))])

\* The ids of the changes of a change list.
Ids(cs) == {cs[i].id : i \in 1..Len(cs)}

(***************************************************************************)
(* changeset.sorted, one loop iteration per step.                          *)
(***************************************************************************)
\* A mutant of sortedReady: every change is taken as ready.
sortedReadyAlways(change, recs) == TRUE

\* A mutant of sortedReady: one listed requirement is enough.
sortedReadyAny(change, recs) ==
    \E i \in 1..Len(change.requires) : change.requires[i] \in recs

\* The inner loop of sorted: no requirement of the change is still unlisted.
sortedReady(change, recs) ==
    \A i \in 1..Len(change.requires) : change.requires[i] \in recs

\* A mutant of sortedAppend: the change is put in front of the output.
sortedPrepend(out, change) == <<change>> \o out

\* sorted = append(sorted, change)
sortedAppend(out, change) == Append(out, change)

\* sorted(): the locals are set up from cs.changes.
sortedStart(cs) ==
    /\ queue' = cs
    /\ records' = {}
    /\ sorted' = <<>>

\* sorted(): one iteration of mainloop.  The head of the queue is taken off;
\* it goes to the end of the queue when a requirement is not yet listed,
\* and to the output otherwise.
sortedLoop ==
    /\ pc = "sort"
    /\ Len(queue) # 0
    /\ LET change == Head(queue)
           rest == Tail(queue)
       IN  \/ /\ ~sortedReady(change, records)
              /\ queue' = Append(rest, change)
              /\ UNCHANGED <<records, sorted>>
           \/ /\ sortedReady(change, records)
              /\ queue' = rest
              /\ records' = records \cup {change.id}
              /\ sorted' = sortedAppend(sorted, change)
    /\ UNCHANGED <<diffVars, callVars, inputVars, inferVars, allocVars, handlerVars, changes, pc>>

\* sorted(): the queue is empty, the output is returned.
sortedReturn ==
    /\ pc = "sort"
    /\ Len(queue) = 0
    /\ pc' = "done"
    /\ UNCHANGED <<diffVars, callVars, inputVars, inferVars, allocVars, handlerVars, changes, sortVars>>

(***************************************************************************)
(* Go maps and their iteration.                                             *)
(***************************************************************************)
\* A map with no key.
EmptyMap == <<>>

\* m[k] of a Go map of strings: the empty string for a missing key.
Get(m, k) == IF k \in DOMAIN m THEN m[k] ELSE ""

\* m[k] = v
Put(m, k, v) == [x \in DOMAIN m \cup {k} |-> IF x = k THEN v ELSE m[x]]

\* The orders in which `for k := range m` may visit the keys S of a map.
IterationOrders(S) ==
    {order \in [1..Cardinality(S) -> S] : Range(order) = S}

\* The strings used as map keys here, in the byte-wise order of sort.Strings.
StringOrder ==
    <<"0", "1", "10", "2", "db", "django", "django2", "web", "wordpress">>

StringLess(a, b) ==
    (CHOOSE i \in 1..Len(StringOrder) : StringOrder[i] = a)
       < (CHOOSE i \in 1..Len(StringOrder) : StringOrder[i] = b)

RECURSIVE InsertString(_, _)
InsertString(x, s) ==
    IF s = <<>> THEN <<x>>
    ELSE IF StringLess(x, Head(s)) THEN <<x>> \o s
    ELSE <<Head(s)>> \o InsertString(x, Tail(s))

\* sort.Strings(names)
RECURSIVE sortStrings(_)
sortStrings(names) ==
    IF names = <<>> THEN <<>>
    ELSE InsertString(Head(names), sortStrings(Tail(names)))

\* strconv.Atoi on the decimal numbers up to MaxNumber.
Atoi(str) == CHOOSE n \in 0..MaxNumber : ToString(n) = str

(***************************************************************************)
(* The bundle.  A placement directive is kept as charm.ParsePlacement       *)
(* returns it, a relation endpoint as its parts around the first ":".       *)
(***************************************************************************)
\* charm.UnitPlacement; Unit is -1 when the directive names no unit.
UnitPlacement(containerType, machine, service, unit) ==
    [ContainerType |-> containerType, Machine |-> machine,
     Service |-> service, Unit |-> unit]

\* The series in the charm URL (charm.MustParseURL(...).Series).
CharmURLSeries ==
    [c \in {"cs:trusty/django-42", "wordpress"} |->
        IF c = "cs:trusty/django-42" THEN "trusty" ELSE ""]

\* getSeries: the series of the service, else of its charm URL, else the
\* default series of the bundle.
getSeries(service, defaultSeries) ==
    IF service.Series # "" THEN service.Series
    ELSE IF CharmURLSeries[service.Charm] # ""
         THEN CharmURLSeries[service.Charm]
         ELSE defaultSeries

\* parseEndpoint: the service before the first ":", the relation after it.
parseEndpoint(e) ==
    [service |-> e[1], relation |-> IF Len(e) = 2 THEN e[2] ELSE ""]

\* endpoint.String
endpointString(ep) ==
    IF ep.relation = "" THEN ep.service
    ELSE ep.service \o ":" \o ep.relation

(***************************************************************************)
(* The constructors of the changes.                                         *)
(***************************************************************************)
newAddCharmChange(charm, series) ==
    newChange("addCharm",
              [NoParams EXCEPT !.Charm = charm, !.Series = series], <<>>)

newAddServiceChange(charm, series, service, requires) ==
    newChange("deploy",
              [NoParams EXCEPT !.Charm = charm, !.Series = series,
                               !.Service = service],
              requires)

newExposeChange(service, requires) ==
    newChange("expose", [NoParams EXCEPT !.Service = service], requires)

newSetAnnotationsChange(entityType, id, annotations, requires) ==
    newChange("setAnnotations",
              [NoParams EXCEPT !.EntityType = entityType, !.Id = id,
                               !.Annotations = annotations],
              requires)

newAddMachineChange(series, containerType, parentId, requires) ==
    newChange("addMachines",
              [NoParams EXCEPT !.Series = series,
                               !.ContainerType = containerType,
                               !.ParentId = parentId],
              requires)

newAddRelationChange(endpoint1, endpoint2, requires) ==
    newChange("addRelation",
              [NoParams EXCEPT !.Endpoint1 = endpoint1,
                               !.Endpoint2 = endpoint2],
              requires)

\* A mutant of newAddUnitChange: the unit is given a placement target.
newAddUnitChangePlaced(service, requires) ==
    newChange("addUnit",
              [NoParams EXCEPT !.Service = service, !.To = "$addMachines-0"],
              requires)

newAddUnitChange(service, requires) ==
    newChange("addUnit", [NoParams EXCEPT !.Service = service], requires)

\* The id of the change added last.
LastId(cs) == cs[Len(cs)].id

(***************************************************************************)
(* handleServices                                                           *)
(***************************************************************************)
\* The body of the loop over the sorted names, for the names left.
\* A mutant of charmAdded: no charm is remembered.
charmNeverAdded(charms, charm) == FALSE

\* charms[service.Charm] != "": an addCharm record was added for the charm.
charmAdded(charms, charm) == Get(charms, charm) # ""

RECURSIVE handleServicesLoop(_, _, _, _)
handleServicesLoop(names, services, defaultSeries, st) ==
    IF names = <<>> THEN st
    ELSE
      LET name == Head(names)
          service == services[name]
          series == getSeries(service, defaultSeries)
          \* Add the addCharm record if one hasn't been added yet.
          cs1 == IF ~charmAdded(st.charms, service.Charm)
                 THEN add(st.cs, newAddCharmChange(service.Charm, series))
                 ELSE st.cs
          charms1 == IF ~charmAdded(st.charms, service.Charm)
                     THEN Put(st.charms, service.Charm, LastId(cs1))
                     ELSE st.charms
          \* Add the addService record for this service.
          cs2 == add(cs1, newAddServiceChange(
                            "$" \o charms1[service.Charm], series, name,
                            <<charms1[service.Charm]>>))
          id == LastId(cs2)
          \* Expose the service if required.
          cs3 == IF service.Expose
                 THEN add(cs2, newExposeChange("$" \o id, <<id>>))
                 ELSE cs2
          \* Add service annotations.
          cs4 == IF Cardinality(DOMAIN service.Annotations) > 0
                 THEN add(cs3, newSetAnnotationsChange(
                                 "service", "$" \o id, service.Annotations,
                                 <<id>>))
                 ELSE cs3
      IN  handleServicesLoop(Tail(names), services, defaultSeries,
                             [cs |-> cs4, charms |-> charms1,
                              addedServices |->
                                 Put(st.addedServices, name, id)])

\* handleServices, with the order in which the services map was iterated.
handleServices(cs, services, defaultSeries, order) ==
    handleServicesLoop(sortStrings(order), services, defaultSeries,
                       [cs |-> cs, charms |-> EmptyMap,
                        addedServices |-> EmptyMap])

(***************************************************************************)
(* handleMachines                                                           *)
(***************************************************************************)
RECURSIVE handleMachinesLoop(_, _, _, _)
handleMachinesLoop(names, machines, defaultSeries, st) ==
    IF names = <<>> THEN st
    ELSE
      LET name == Head(names)
          machine == machines[name]
          series == IF machine.Series = "" THEN defaultSeries
                    ELSE machine.Series
          \* Add the addMachines record for this machine.
          cs1 == add(st.cs, newAddMachineChange(series, "", "", <<>>))
          id == LastId(cs1)
          \* Add machine annotations.
          cs2 == IF Cardinality(DOMAIN machine.Annotations) > 0
                 THEN add(cs1, newSetAnnotationsChange(
                                 "machine", "$" \o id, machine.Annotations,
                                 <<id>>))
                 ELSE cs1
      IN  handleMachinesLoop(Tail(names), machines, defaultSeries,
                             [cs |-> cs2,
                              addedMachines |->
                                 Put(st.addedMachines, name, id)])

\* handleMachines, with the order in which the machines map was iterated.
handleMachines(cs, machines, defaultSeries, order) ==
    handleMachinesLoop(sortStrings(order), machines, defaultSeries,
                       [cs |-> cs, addedMachines |-> EmptyMap])

(***************************************************************************)
(* handleRelations                                                          *)
(***************************************************************************)
\* One endpoint of a relation: the required deploy change and the argument.
\* A mutant of the endpoint of an addRelation change: the change requires
\* the name of the service in place of the id of its deploy change.
relationEndpointRequiresName(endpoint, added) ==
    LET ep == parseEndpoint(endpoint)
        service == Get(added, ep.service)
    IN  [requires |-> ep.service,
         arg |-> "$" \o endpointString([ep EXCEPT !.service = service])]

relationEndpoint(endpoint, added) ==
    LET ep == parseEndpoint(endpoint)
        service == Get(added, ep.service)
    IN  [requires |-> service,
         arg |-> "$" \o endpointString([ep EXCEPT !.service = service])]

RECURSIVE handleRelations(_, _, _)
handleRelations(cs, relations, added) ==
    IF relations = <<>> THEN cs
    ELSE
      LET relation == Head(relations)
          e1 == relationEndpoint(relation[1], added)
          e2 == relationEndpoint(relation[2], added)
      IN  handleRelations(
             add(cs, newAddRelationChange(e1.arg, e2.arg,
                                          <<e1.requires, e2.requires>>)),
             Tail(relations), added)

(***************************************************************************)
(* handleUnits, unitParent and addContainer.  The map `records` of          *)
(* handleUnits holds pointers to the addUnit changes of the set: here it    *)
(* maps the unit name to the position of the change in the set.             *)
(***************************************************************************)
\* fmt.Sprintf("%s/%d", name, i)
unitName(name, i) == name \o "/" \o ToString(i)

\* A mutant of addContainer: the change requires the placeholder of the
\* parent in place of its id.
addContainerRequiresPlaceholder(cs, containerType, parentId, series) ==
    add(cs, newAddMachineChange(series, containerType, "$" \o parentId,
                                <<"$" \o parentId>>))

\* addContainer: an addMachines change for a container in the parent.
addContainer(cs, containerType, parentId, series) ==
    add(cs, newAddMachineChange(series, containerType, "$" \o parentId,
                                <<parentId>>))

\* unitParent: the changes needed to place a unit as p says, and the id of
\* the parent change.  st holds the change set, the records of the unit
\* changes and servicePlacedUnits; panic is set when records holds no change
\* for the unit the placement leads to (a method call on a nil pointer).
unitParent(st, p, addedMachs, series) ==
    IF p.Machine = "new" THEN
        \* The unit is placed to a new machine.
        LET cs1 == add(st.cs, newAddMachineChange(series, p.ContainerType,
                                                   "", <<>>))
        IN  [st EXCEPT !.cs = cs1, !.parentId = LastId(cs1)]
    ELSE IF p.Machine # "" THEN
        \* The unit is placed to a machine declared in the bundle.
        LET parentId == Get(addedMachs, p.Machine)
        IN  IF p.ContainerType # ""
            THEN LET cs1 == addContainer(st.cs, p.ContainerType, parentId,
                                         series)
                 IN  [st EXCEPT !.cs = cs1, !.parentId = LastId(cs1)]
            ELSE [st EXCEPT !.parentId = parentId]
    ELSE
        \* The unit is placed to another unit or to a service.
        LET number ==
                IF p.Unit = -1
                THEN IF p.Service \in DOMAIN st.servicePlacedUnits
                     THEN st.servicePlacedUnits[p.Service] + 1
                     ELSE 0
                ELSE p.Unit
            placed ==
                IF p.Unit = -1
                THEN Put(st.servicePlacedUnits, p.Service, number)
                ELSE st.servicePlacedUnits
            otherUnit == unitName(p.Service, number)
        IN  IF otherUnit \notin DOMAIN st.records
            THEN [st EXCEPT !.servicePlacedUnits = placed, !.panic = TRUE]
            ELSE
              LET parentId == st.cs[st.records[otherUnit]].id
              IN  IF p.ContainerType # ""
                  THEN LET cs1 == addContainer(st.cs, p.ContainerType,
                                               parentId, series)
                       IN  [st EXCEPT !.servicePlacedUnits = placed,
                                      !.cs = cs1, !.parentId = LastId(cs1)]
                  ELSE [st EXCEPT !.servicePlacedUnits = placed,
                                  !.parentId = parentId]

\* The first loop of handleUnits for one service: the addUnit changes of the
\* units i, i+1, ... of the service.
RECURSIVE addUnitChanges(_, _, _, _, _)
addUnitChanges(st, name, i, numUnits, addedService) ==
    IF i >= numUnits THEN st
    ELSE
      LET cs1 == add(st.cs, newAddUnitChange("$" \o addedService,
                                              <<addedService>>))
      IN  addUnitChanges(
             [st EXCEPT !.cs = cs1,
                        !.records = Put(@, unitName(name, i), Len(cs1))],
             name, i + 1, numUnits, addedService)

\* The first loop of handleUnits over the sorted names.
RECURSIVE collectUnits(_, _, _, _)
collectUnits(st, names, services, added) ==
    IF names = <<>> THEN st
    ELSE collectUnits(
            addUnitChanges(st, Head(names), 0,
                           services[Head(names)].NumUnits,
                           Get(added, Head(names))),
            Tail(names), services, added)

\* A mutant of placementFor: a unit beyond the directives goes to a new machine.
placementForOrNew(service, i) ==
    IF i < Len(service.To) THEN service.To[i + 1]
    ELSE UnitPlacement("", "new", "", -1)

\* The directive p of the placement loop for the unit i: its own, or
\* lastPlacement when the service has fewer directives than units.
placementFor(service, i) ==
    IF i < Len(service.To) THEN service.To[i + 1]
    ELSE service.To[Len(service.To)]

\* The placement loop of handleUnits for one service: the units i, i+1, ...
RECURSIVE placeUnits(_, _, _, _, _, _)
placeUnits(st, name, service, i, addedMachs, defaultSeries) ==
    IF i >= service.NumUnits \/ st.panic THEN st
    ELSE
      LET p == placementFor(service, i)
          \* Generate the changes required in order to place this unit.
          st1 == unitParent(st, p, addedMachs,
                            getSeries(service, defaultSeries))
          \* Modify the original addUnit change: the new parent requirement
          \* and the placement target.
          k == st1.records[unitName(name, i)]
          cs2 == [st1.cs EXCEPT
                    ![k].requires = Append(@, st1.parentId),
                    ![k].Params.To = "$" \o st1.parentId]
      IN  IF st1.panic THEN st1
          ELSE placeUnits([st1 EXCEPT !.cs = cs2], name, service, i + 1,
                          addedMachs, defaultSeries)

\* The second loop of handleUnits over the sorted names.
RECURSIVE placeServices(_, _, _, _, _)
placeServices(st, names, services, addedMachs, defaultSeries) ==
    IF names = <<>> \/ st.panic THEN st
    ELSE
      LET service == services[Head(names)]
      IN  placeServices(
             IF Len(service.To) = 0 THEN st
             ELSE placeUnits([st EXCEPT !.servicePlacedUnits = EmptyMap],
                             Head(names), service, 0, addedMachs,
                             defaultSeries),
             Tail(names), services, addedMachs, defaultSeries)

\* handleUnits, with the order in which the services map was iterated.
handleUnits(cs, services, added, addedMachs, defaultSeries, order) ==
    LET names == sortStrings(order)
        st0 == [cs |-> cs, records |-> EmptyMap,
                servicePlacedUnits |-> EmptyMap, parentId |-> "",
                panic |-> FALSE]
    IN  placeServices(collectUnits(st0, names, services, added), names,
                      services, addedMachs, defaultSeries)

(***************************************************************************)
(* The inputs of the planning specification: verified bundles of two        *)
(* services, and the deployment the plan is meant for.                      *)
(***************************************************************************)
\* charm.ServiceSpec
ServiceSpec(charm, numUnits, to, expose, annotations) ==
    [Charm |-> charm, Series |-> "", NumUnits |-> numUnits, To |-> to,
     Expose |-> expose, Annotations |-> annotations]

\* charm.MachineSpec
MachineSpec(annotations) == [Series |-> "", Annotations |-> annotations]

\* charm.BundleData
BundleData(services, machines, relations) ==
    [Services |-> services, Machines |-> machines, Relations |-> relations,
     Series |-> "xenial"]

NoAnnotations == EmptyMap
SomeAnnotations == [k \in {"gui-x"} |-> "609"]

\* A bundle of django and wordpress.
TwoServices(django, wordpress, machines, relations) ==
    BundleData([n \in {"django", "wordpress"} |->
                   IF n = "django" THEN django ELSE wordpress],
               machines, relations)

\* The directives that a verified bundle may hold: a new machine, a machine
\* of the bundle, a service of the bundle or one of its units, each with or
\* without a container type.
Directives(djangoUnits, wordpressUnits) ==
    LET Targets ==
            {UnitPlacement("", "new", "", -1), UnitPlacement("", "0", "", -1),
             UnitPlacement("", "", "django", -1),
             UnitPlacement("", "", "wordpress", -1)}
            \cup {UnitPlacement("", "", "django", n) :
                     n \in 0..(djangoUnits - 1)}
            \cup {UnitPlacement("", "", "wordpress", n) :
                     n \in 0..(wordpressUnits - 1)}
    IN  Targets \cup {[t EXCEPT !.ContainerType = "lxd"] : t \in Targets}

\* The machines that the directives of the two lists name.
NamedMachines(to1, to2) ==
    {p.Machine : p \in {q \in Range(to1) \cup Range(to2) :
                           q.Machine \notin {"", "new"}}}

Min(a, b) == IF a < b THEN a ELSE b

\* Bundles with placement directives: at most MaxDirectives of them, no
\* more for a service than it has units, and the machines they name.
PlacementBundles ==
    UNION {
      UNION {
        {TwoServices(
            ServiceSpec("cs:trusty/django-42", u1, to1, FALSE, NoAnnotations),
            ServiceSpec("wordpress", u2, to2, FALSE, NoAnnotations),
            [m \in NamedMachines(to1, to2) |-> MachineSpec(NoAnnotations)],
            <<>>) :
           to1 \in [1..k[1] -> Directives(u1, u2)],
           to2 \in [1..k[2] -> Directives(u1, u2)]} :
        k \in {l \in (0..Min(u1, MaxDirectives)) \X (0..Min(u2, MaxDirectives)) :
                 l[1] + l[2] \in 1..MaxDirectives}} :
      u1 \in 0..MaxUnits, u2 \in 0..MaxUnits}

\* Bundles without placement directives: the services may share a charm, be
\* exposed, annotated and related, and a machine may be declared.
PlainBundles ==
    {TwoServices(
        ServiceSpec("cs:trusty/django-42", u1, <<>>, expose, annotations),
        ServiceSpec(charm, u2, <<>>, FALSE, NoAnnotations),
        machines, relations) :
       u1 \in 0..MaxUnits, u2 \in 0..MaxUnits, expose \in BOOLEAN,
       annotations \in {NoAnnotations, SomeAnnotations},
       charm \in {"wordpress", "cs:trusty/django-42"},
       machines \in {EmptyMap,
                     [m \in {"0"} |-> MachineSpec(NoAnnotations)],
                     [m \in {"0"} |-> MachineSpec(SomeAnnotations)]},
       relations \in {<<>>, << <<<<"django", "db">>, <<"wordpress", "db">>>> >>,
                      << <<<<"wordpress">>, <<"django">>>> >>}}

\* Bundles of two services on one charm whose URL names no series: the
\* series of a service is its own or the one of the bundle.
SeriesBundles ==
    {TwoServices(
        [ServiceSpec("wordpress", u1, <<>>, FALSE, NoAnnotations)
            EXCEPT !.Series = series1],
        [ServiceSpec("wordpress", u2, <<>>, FALSE, NoAnnotations)
            EXCEPT !.Series = series2],
        EmptyMap, <<>>) :
       u1 \in 0..1, u2 \in 0..1, series1 \in {"", "precise", "xenial"},
       series2 \in {"", "precise", "xenial"}}

\* Bundles that declare machines whose ids have one and two digits.
MachineBundles ==
    {TwoServices(
        ServiceSpec("cs:trusty/django-42", u1, <<>>, FALSE, NoAnnotations),
        ServiceSpec("wordpress", 0, <<>>, FALSE, NoAnnotations),
        [id \in ids |-> MachineSpec(NoAnnotations)], <<>>) :
       u1 \in 0..1, ids \in (SUBSET {"1", "2", "10"}) \ {{}}}

\* Unit
Unit(name, machine) == [Name |-> name, Machine |-> machine]

\* Application
Application(charm, units) ==
    [Charm |-> charm, Exposed |-> FALSE, Options |-> EmptyMap,
     Units |-> units]

\* Relation
Relation(app1, endpoint1, app2, endpoint2) ==
    [App1 |-> app1, Endpoint1 |-> endpoint1, App2 |-> app2,
     Endpoint2 |-> endpoint2]

\* A map that is nil.
NilMap == [nil |-> TRUE]

\* Model.  A machine id is kept as its parts between the "/"s.  Sequence is
\* the exported field, sequence the copy that planning works on.
Model(applications, machines, relations, machineMap) ==
    [Applications |-> applications, Machines |-> machines,
     Relations |-> relations, MachineMap |-> machineMap,
     Sequence |-> NilMap, sequence |-> NilMap]

\* No existing deployment.
EmptyModel == Model(EmptyMap, {}, <<>>, EmptyMap)

\* The deployment of TestAppExistsWithLessUnits: django/0 on machine 0.
DjangoModel ==
    Model([n \in {"django"} |->
              Application("cs:trusty/django-42",
                          <<Unit("django/0", <<"0">>)>>)],
          {<<"0">>}, <<>>, EmptyMap)

\* The inputs of a planning run.
Inputs ==
    {[data |-> b, model |-> m] : b \in PlainBundles,
                                 m \in {EmptyModel, DjangoModel}}
    \cup {[data |-> b, model |-> EmptyModel] : b \in PlacementBundles}
    \cup {[data |-> b, model |-> EmptyModel] : b \in SeriesBundles}
    \cup {[data |-> b, model |-> EmptyModel] : b \in MachineBundles}

(***************************************************************************)
(* FromData, one handler per step, then sorted.                             *)
(***************************************************************************)
HandleServices ==
    /\ pc = "handleServices"
    /\ \E order \in IterationOrders(DOMAIN data.Services) :
          LET st == handleServices(changes, data.Services, data.Series, order)
          IN  /\ changes' = st.cs
              /\ addedServices' = st.addedServices
    /\ pc' = "handleMachines"
    /\ UNCHANGED <<diffVars, callVars, inputVars, inferVars, allocVars, addedMachines, sortVars>>

HandleMachines ==
    /\ pc = "handleMachines"
    /\ \E order \in IterationOrders(DOMAIN data.Machines) :
          LET st == handleMachines(changes, data.Machines, data.Series, order)
          IN  /\ changes' = st.cs
              /\ addedMachines' = st.addedMachines
    /\ pc' = "handleRelations"
    /\ UNCHANGED <<diffVars, callVars, inputVars, inferVars, allocVars, addedServices, sortVars>>

HandleRelations ==
    /\ pc = "handleRelations"
    /\ changes' = handleRelations(changes, data.Relations, addedServices)
    /\ pc' = "handleUnits"
    /\ UNCHANGED <<diffVars, callVars, inputVars, inferVars, allocVars, handlerVars, sortVars>>

\* handleUnits, and the call of sorted on the change set it leaves; or the
\* panic of unitParent, which ends the run.
HandleUnits ==
    /\ pc = "handleUnits"
    /\ \E order \in IterationOrders(DOMAIN data.Services) :
          LET st == handleUnits(changes, data.Services, addedServices,
                                addedMachines, data.Series, order)
          IN  /\ changes' = st.cs
              /\ \/ /\ ~st.panic
                    /\ pc' = "sort"
                    /\ sortedStart(st.cs)
                 \/ /\ st.panic
                    /\ pc' = "panic"
                    /\ UNCHANGED sortVars
    /\ UNCHANGED <<diffVars, callVars, inputVars, inferVars, allocVars, handlerVars>>

Init ==
    /\ \E input \in Inputs :
          /\ data = input.data
          /\ model = input.model
    /\ changes = <<>>
    /\ addedServices = EmptyMap
    /\ addedMachines = EmptyMap
    /\ pc = "handleServices"
    /\ queue = <<>>
    /\ records = {}
    /\ sorted = <<>>
    /\ machineMaps = <<>>
    /\ calls = <<>>
    /\ diff = NilMap
    /\ returned = NilMap

Next ==
    \/ HandleServices
    \/ HandleMachines
    \/ HandleRelations
    \/ HandleUnits
    \/ sortedLoop
    \/ sortedReturn

Spec == Init /\ [][Next]_vars

(***************************************************************************)
(* Model.InferMachineMap.  The id of an existing machine is kept as its    *)
(* parts, <<"0", "lxd", "1">> for 0/lxd/1; the ids of bundle machines and   *)
(* the values of MachineMap are the strings of top level machines.         *)
(***************************************************************************)
\* names.MachineTag.ContainerType
machineContainerType(id) == IF Len(id) >= 3 THEN id[Len(id) - 1] ELSE ""

\* names.MachineTag.Parent
machineParent(id) == SubSeq(id, 1, Len(id) - 2)

RECURSIVE topLevelMachine(_)
topLevelMachine(machineID) ==
    IF Len(machineID) < 3 THEN machineID
    ELSE topLevelMachine(machineParent(machineID))

\* The order of naturalsort on the ids of the bundle machines, which are
\* numbers: the lower number comes first.
naturalLess(a, b) == Atoi(a) < Atoi(b)

RECURSIVE naturalInsert(_, _)
naturalInsert(x, s) ==
    IF s = <<>> THEN <<x>>
    ELSE IF naturalLess(x, Head(s)) THEN <<x>> \o s
    ELSE <<Head(s)>> \o naturalInsert(x, Tail(s))

\* naturalsort.Sort(ids)
RECURSIVE naturalsortSort(_)
naturalsortSort(ids) ==
    IF ids = <<>> THEN <<>>
    ELSE naturalInsert(Head(ids), naturalsortSort(Tail(ids)))

\* The id of a machine as a string, from its parts.
RECURSIVE machineIdString(_)
machineIdString(id) ==
    IF Len(id) = 1 THEN id[1]
    ELSE machineIdString(SubSeq(id, 1, Len(id) - 1)) \o "/" \o id[Len(id)]

machineHasApp(m, machine, appName, containerType) ==
    LET mapped == IF machine \in DOMAIN m.MachineMap
                  THEN m.MachineMap[machine] ELSE machine
    IN  /\ appName \in DOMAIN m.Applications
        /\ \E i \in 1..Len(m.Applications[appName].Units) :
              LET machineTag == m.Applications[appName].Units[i].Machine
              IN  IF containerType = ""
                  THEN /\ machineContainerType(machineTag) = ""
                       /\ machineIdString(machineTag) = mapped
                  ELSE /\ machineContainerType(machineTag) = containerType
                       /\ machineIdString(machineParent(machineTag)) = mapped

\* The first loop of InferMachineMap over the directives i, i+1, ... of one
\* application.  st holds the model and initialMachines.
RECURSIVE inferInitialTo(_, _, _, _)
inferInitialTo(st, appName, to, i) ==
    IF i > Len(to) THEN st
    ELSE
      LET placement == to[i]
          machine == placement.Machine
      IN  inferInitialTo(
             IF \/ machine = ""
                \/ machine \in DOMAIN st.m.MachineMap
                \/ ~machineHasApp(st.m, machine, appName,
                                  placement.ContainerType)
             THEN st
             ELSE [st EXCEPT !.m.MachineMap = Put(@, machine, machine),
                             !.initialMachines = @ \cup {machine}],
             appName, to, i + 1)

\* The first loop of InferMachineMap over the applications as iterated.
RECURSIVE inferInitial(_, _, _)
inferInitial(st, services, order) ==
    IF order = <<>> THEN st
    ELSE inferInitial(
            inferInitialTo(st, Head(order), services[Head(order)].To, 1),
            services, Tail(order))

NotFound == [found |-> FALSE, machine |-> ""]

\* The loop over the directives index, index+1, ... of one application in
\* the main loop: the machine of the first deployed unit that fits.
RECURSIVE inferFromTo(_, _, _, _, _, _)
inferFromTo(m, initialMachines, id, appName, to, index) ==
    IF index >= Len(to) THEN NotFound
    ELSE
      LET placement == to[index + 1]
          deployed == m.Applications[appName]
          machine == topLevelMachine(deployed.Units[index + 1].Machine)[1]
      IN  IF \/ placement.Machine # id
             \/ appName \notin DOMAIN m.Applications
             \/ Len(deployed.Units) <= index
             \/ machine \in initialMachines
          THEN inferFromTo(m, initialMachines, id, appName, to, index + 1)
          ELSE [found |-> TRUE, machine |-> machine]

\* The loop over the applications as iterated, for one bundle machine.
RECURSIVE inferFromApps(_, _, _, _, _)
inferFromApps(m, initialMachines, id, services, order) ==
    IF order = <<>> THEN NotFound
    ELSE
      LET r == inferFromTo(m, initialMachines, id, Head(order),
                           services[Head(order)].To, 0)
      IN  IF r.found THEN r
          ELSE inferFromApps(m, initialMachines, id, services, Tail(order))

\* mainloop of InferMachineMap; orders[id] is the order in which the
\* applications are iterated for the bundle machine id.
RECURSIVE inferMain(_, _, _, _, _)
inferMain(m, initialMachines, ids, services, orders) ==
    IF ids = <<>> THEN m
    ELSE
      LET id == Head(ids)
          r == inferFromApps(m, initialMachines, id, services, orders[id])
      IN  inferMain(
             IF id \notin DOMAIN m.MachineMap /\ r.found
             THEN [m EXCEPT !.MachineMap = Put(@, id, r.machine)]
             ELSE m,
             initialMachines, Tail(ids), services, orders)

\* InferMachineMap: first the order of the first loop over the applications,
\* machineOrder the order of the loop over the bundle machines and orders
\* those of the loops over the applications in mainloop.
InferMachineMap(m, bundle, first, machineOrder, orders) ==
    LET st == inferInitial([m |-> m, initialMachines |-> {}],
                           bundle.Services, first)
    IN  inferMain(st.m, st.initialMachines, naturalsortSort(machineOrder),
                  bundle.Services, orders)

\* The directives of the bundles given to InferMachineMap.
InferDirectives ==
    {UnitPlacement("", "0", "", -1), UnitPlacement("lxd", "0", "", -1),
     UnitPlacement("", "1", "", -1), UnitPlacement("", "new", "", -1)}

\* The machines that hold the units of the deployment.
InferMachines == {<<"0">>, <<"1">>, <<"0", "lxd", "0">>, <<"1", "lxd", "0">>}

\* The MachineMap given by the caller: none, or bundle machine 0 mapped.
InferMachineMaps == {EmptyMap, [id \in {"0"} |-> "1"]}

\* Bundles whose units are placed on the bundle machines 0 and 1 or in a
\* container on machine 0.
InferBundles ==
    {TwoServices(
        ServiceSpec("cs:trusty/django-42", Len(to1), to1, FALSE, NoAnnotations),
        ServiceSpec("wordpress", Len(to2), to2, FALSE, NoAnnotations),
        [id \in NamedMachines(to1, to2) |-> MachineSpec(NoAnnotations)],
        <<>>) :
       to1 \in [1..1 -> InferDirectives], to2 \in [1..1 -> InferDirectives]}

\* Deployments of one unit of django and at most one of wordpress.
InferModels ==
    {Model([n \in {"django"} |->
               Application("cs:trusty/django-42", <<Unit("django/0", m1)>>)],
           {topLevelMachine(m1)}, <<>>, machineMap) :
       m1 \in InferMachines, machineMap \in InferMachineMaps}
    \cup
    {Model([n \in {"django", "wordpress"} |->
               IF n = "django"
               THEN Application("cs:trusty/django-42",
                                <<Unit("django/0", m1)>>)
               ELSE Application("wordpress", <<Unit("wordpress/0", m2)>>)],
           {topLevelMachine(m1), topLevelMachine(m2)}, <<>>, machineMap) :
       m1 \in InferMachines, m2 \in InferMachines,
       machineMap \in InferMachineMaps}

\* A run of InferMachineMap on the deployment.
InferRun ==
    /\ pc = "infer"
    /\ Len(machineMaps) < InferRuns
    /\ \E first \in IterationOrders(DOMAIN data.Services),
          machineOrder \in IterationOrders(DOMAIN data.Machines),
          orders \in [DOMAIN data.Machines ->
                         IterationOrders(DOMAIN data.Services)] :
          machineMaps' =
              Append(machineMaps,
                     InferMachineMap(model, data, first, machineOrder,
                                     orders).MachineMap)
    /\ UNCHANGED <<diffVars, callVars, inputVars, allocVars, handlerVars, changes, pc, sortVars>>

InferInit ==
    /\ data \in InferBundles
    /\ model \in InferModels
    /\ changes = <<>>
    /\ addedServices = EmptyMap
    /\ addedMachines = EmptyMap
    /\ pc = "infer"
    /\ queue = <<>>
    /\ records = {}
    /\ sorted = <<>>
    /\ machineMaps = <<>>
    /\ calls = <<>>
    /\ diff = NilMap
    /\ returned = NilMap

InferNext == InferRun

InferSpec == InferInit /\ [][InferNext]_vars

(***************************************************************************)
(* The sequence of a Model: initializeSequence, nextMachine, nextContainer *)
(* and nextUnit.                                                            *)
(***************************************************************************)
\* names.UnitTag.Number: the number after the "/" of a unit name.
unitNumber(name) ==
    CHOOSE n \in 0..MaxNumber :
       \E app \in {"django", "wordpress"} : unitName(app, n) = name

\* m.sequence[key], which is 0 for a key the map does not hold.
sequenceValue(seq, key) == IF key \in DOMAIN seq THEN seq[key] ELSE 0

\* A mutant of sequenceBump: the number seen last wins.
sequenceBumpLast(seq, key, n) == Put(seq, key, n + 1)

\* if existing := m.sequence[key]; existing <= n { m.sequence[key] = n + 1 }
sequenceBump(seq, key, n) ==
    IF sequenceValue(seq, key) <= n THEN Put(seq, key, n + 1) ELSE seq

\* The loop of initializeSequence over the units i, i+1, ... of one
\* application.
RECURSIVE sequenceOfUnits(_, _, _, _)
sequenceOfUnits(seq, appName, units, i) ==
    IF i > Len(units) THEN seq
    ELSE sequenceOfUnits(
            sequenceBump(seq, "application-" \o appName,
                         unitNumber(units[i].Name)),
            appName, units, i + 1)

\* The loop of initializeSequence over the applications as iterated.
RECURSIVE sequenceOfApplications(_, _, _)
sequenceOfApplications(seq, applications, order) ==
    IF order = <<>> THEN seq
    ELSE sequenceOfApplications(
            sequenceOfUnits(seq, Head(order), applications[Head(order)].Units,
                            1),
            applications, Tail(order))

\* The key of the sequence that counts the machines next to this one.
machineKey(machineID) ==
    IF machineContainerType(machineID) # ""
    THEN "machine-" \o machineIdString(machineParent(machineID)) \o "/"
            \o machineContainerType(machineID)
    ELSE "machine"

\* The loop of initializeSequence over the machines as iterated.
RECURSIVE sequenceOfMachines(_, _)
sequenceOfMachines(seq, order) ==
    IF order = <<>> THEN seq
    ELSE
      LET machineID == Head(order)
      IN  sequenceOfMachines(
             sequenceBump(seq, machineKey(machineID),
                          Atoi(machineID[Len(machineID)])),
             Tail(order))

\* initializeSequence: the value of m.sequence it leaves, with the orders in
\* which the maps of the model were iterated.
initializeSequence(m, appOrder, machineOrder) ==
    IF m.Sequence # NilMap THEN m.Sequence
    ELSE sequenceOfMachines(
            sequenceOfApplications(EmptyMap, m.Applications, appOrder),
            machineOrder)

\* The calls of the allocator: nextMachine(), nextContainer(parentID,
\* containerType) and nextUnit(appName).
nextMachineCall == [fn |-> "nextMachine", arg1 |-> "", arg2 |-> ""]
nextContainerCall(parentID, containerType) ==
    [fn |-> "nextContainer", arg1 |-> parentID, arg2 |-> containerType]
nextUnitCall(appName) == [fn |-> "nextUnit", arg1 |-> appName, arg2 |-> ""]

\* key := ...
sequenceKey(call) ==
    IF call.fn = "nextMachine" THEN "machine"
    ELSE IF call.fn = "nextContainer"
    THEN "machine-" \o call.arg1 \o "/" \o call.arg2
    ELSE "application-" \o call.arg1

\* What the call returns for the value read from the sequence.
sequenceName(call, value) ==
    IF call.fn = "nextMachine" THEN ToString(value)
    ELSE IF call.fn = "nextContainer"
    THEN call.arg1 \o "/" \o call.arg2 \o "/" \o ToString(value)
    ELSE call.arg1 \o "/" \o ToString(value)

(***************************************************************************)
(* The allocator specification: a planning call initialises the sequence   *)
(* of the Model and then asks it for names.                                 *)
(***************************************************************************)
\* The calls that a planning call makes.
AllocCalls ==
    {nextMachineCall, nextContainerCall("0", "lxd"), nextUnitCall("django"),
     nextUnitCall("wordpress")}

\* A planning call that has not started.
NotStarted == [pc |-> "start", call |-> nextMachineCall, value |-> 0,
               out |-> <<>>]

\* initializeSequence, called by the planning call t.
InitializeSequence(t) ==
    /\ pc = "alloc"
    /\ calls[t].pc = "start"
    /\ \E appOrder \in IterationOrders(DOMAIN model.Applications),
          machineOrder \in IterationOrders(model.Machines) :
          model' = [model EXCEPT
                      !.sequence = initializeSequence(model, appOrder,
                                                      machineOrder)]
    /\ calls' = [calls EXCEPT ![t].pc = "ready"]
    /\ UNCHANGED <<diffVars, callVars, data, inferVars, handlerVars, changes, pc, sortVars>>

\* value := m.sequence[key] of nextMachine, nextContainer or nextUnit.
NextRead(t) ==
    /\ pc = "alloc"
    /\ calls[t].pc = "ready"
    /\ Len(calls[t].out) < MaxCalls
    /\ \E call \in AllocCalls :
          calls' = [calls EXCEPT
                      ![t].pc = "write",
                      ![t].call = call,
                      ![t].value = sequenceValue(model.sequence,
                                                 sequenceKey(call))]
    /\ UNCHANGED <<diffVars, callVars, inputVars, inferVars, handlerVars, changes, pc, sortVars>>

\* m.sequence[key] = value + 1 and the return of the name.
NextWrite(t) ==
    /\ pc = "alloc"
    /\ calls[t].pc = "write"
    /\ model' = [model EXCEPT
                   !.sequence = Put(@, sequenceKey(calls[t].call),
                                    calls[t].value + 1)]
    /\ calls' = [calls EXCEPT
                   ![t].pc = "ready",
                   ![t].out = Append(@, [call |-> calls[t].call,
                                         name |-> sequenceName(
                                                     calls[t].call,
                                                     calls[t].value)])]
    /\ UNCHANGED <<diffVars, callVars, data, inferVars, handlerVars, changes, pc, sortVars>>

\* Deployments of django for the allocator.
SeqModels ==
    {[Model([n \in {"django"} |->
                Application("cs:trusty/django-42", units)],
            machines, <<>>, EmptyMap) EXCEPT !.Sequence = sequence] :
       units \in {<<>>, <<Unit("django/0", <<"0">>)>>,
                  <<Unit("django/0", <<"0">>), Unit("django/1", <<"1">>)>>,
                  <<Unit("django/3", <<"1">>), Unit("django/1", <<"0">>)>>},
       machines \in {ms \in SUBSET {<<"0">>, <<"1">>, <<"3">>,
                                    <<"0", "lxd", "0">>, <<"0", "lxd", "2">>,
                                    <<"1", "lxd", "1">>} :
                       Cardinality(ms) <= 3},
       sequence \in {NilMap, EmptyMap,
                     [key \in {"application-django", "machine"} |->
                         IF key = "machine" THEN 2 ELSE 4]}}

SeqInit ==
    /\ data = BundleData(EmptyMap, EmptyMap, <<>>)
    /\ model \in SeqModels
    /\ changes = <<>>
    /\ addedServices = EmptyMap
    /\ addedMachines = EmptyMap
    /\ pc = "alloc"
    /\ queue = <<>>
    /\ records = {}
    /\ sorted = <<>>
    /\ machineMaps = <<>>
    /\ calls = [t \in {1} |-> NotStarted]
    /\ diff = NilMap
    /\ returned = NilMap

SeqNext ==
    \/ \E t \in DOMAIN calls : InitializeSequence(t)
    \/ \E t \in DOMAIN calls : NextRead(t)
    \/ \E t \in DOMAIN calls : NextWrite(t)

SeqSpec == SeqInit /\ [][SeqNext]_vars

(***************************************************************************)
(* The race specification: two planning calls on separate threads that     *)
(* were given the same Model.  The steps of the calls interleave; two       *)
(* writes of the map m.sequence that overlap are a data race, which the     *)
(* runtime may let pass (one update is lost) or end with the fatal error    *)
(* "concurrent map writes".                                                 *)
(***************************************************************************)
\* The runtime ends the process: the call t writes the map while another
\* call is writing it.
ConcurrentMapWrites(t) ==
    /\ pc = "alloc"
    /\ calls[t].pc = "write"
    /\ \E u \in DOMAIN calls : u # t /\ calls[u].pc = "write"
    /\ pc' = "fatal"
    /\ UNCHANGED <<diffVars, callVars, inputVars, inferVars, allocVars, handlerVars, changes,
                   sortVars>>

\* The deployments that the two calls share.
RaceModels ==
    {m \in SeqModels :
        /\ Len(m.Applications["django"].Units) \in {0, 2}
        /\ m.Machines \in {{}, {<<"0">>, <<"1">>, <<"0", "lxd", "0">>}}}

RaceInit ==
    /\ data = BundleData(EmptyMap, EmptyMap, <<>>)
    /\ model \in RaceModels
    /\ changes = <<>>
    /\ addedServices = EmptyMap
    /\ addedMachines = EmptyMap
    /\ pc = "alloc"
    /\ queue = <<>>
    /\ records = {}
    /\ sorted = <<>>
    /\ machineMaps = <<>>
    /\ calls = [t \in {1, 2} |-> NotStarted]
    /\ diff = NilMap
    /\ returned = NilMap

RaceNext ==
    \/ \E t \in DOMAIN calls : InitializeSequence(t)
    \/ \E t \in DOMAIN calls : NextRead(t)
    \/ \E t \in DOMAIN calls : NextWrite(t)
    \/ \E t \in DOMAIN calls : ConcurrentMapWrites(t)

RaceSpec == RaceInit /\ [][RaceNext]_vars

(***************************************************************************)
(* The sort specification: any change set that add and the later appends   *)
(* to a change's requires can build, then sorted.                           *)
(***************************************************************************)
Methods == {"addMachines", "addUnit"}

\* The number of requires edges of a change list.
RECURSIVE NumEdges(_)
NumEdges(cs) ==
    IF cs = <<>> THEN 0 ELSE Len(Head(cs).requires) + NumEdges(Tail(cs))

\* The ids a requirement may name: a change of the set, or the empty id that
\* a lookup of a missing key in a Go map gives.
RequireChoices(cs) == Ids(cs) \cup {""}

\* A handler adds a change that requires at most one change.
Add ==
    /\ pc = "build"
    /\ Len(changes) < MaxChanges
    /\ \E method \in Methods :
       \E requires \in {<<>>} \cup {<<r>> : r \in RequireChoices(changes)} :
          /\ NumEdges(changes) + Len(requires) <= MaxEdges
          /\ changes' = add(changes, newChange(method, NoParams, requires))
    /\ UNCHANGED <<diffVars, callVars, inputVars, inferVars, allocVars, handlerVars, pc, sortVars>>

\* A handler appends to the requires of a change already in the set
\* (change.requires = append(change.requires, parentId)).
AppendRequires ==
    /\ pc = "build"
    /\ NumEdges(changes) < MaxEdges
    /\ \E i \in 1..Len(changes) :
       \E r \in RequireChoices(changes) :
          changes' = [changes EXCEPT ![i].requires = Append(@, r)]
    /\ UNCHANGED <<diffVars, callVars, inputVars, inferVars, allocVars, handlerVars, pc, sortVars>>

\* The change set is complete and sorted() is called.
SortCall ==
    /\ pc = "build"
    /\ pc' = "sort"
    /\ sortedStart(changes)
    /\ UNCHANGED <<diffVars, callVars, inputVars, inferVars, allocVars, handlerVars, changes>>

SortInit ==
    /\ data = BundleData(EmptyMap, EmptyMap, <<>>)
    /\ model = EmptyModel
    /\ addedServices = EmptyMap
    /\ addedMachines = EmptyMap
    /\ changes = <<>>
    /\ pc = "build"
    /\ queue = <<>>
    /\ records = {}
    /\ sorted = <<>>
    /\ machineMaps = <<>>
    /\ calls = <<>>
    /\ diff = NilMap
    /\ returned = NilMap

SortNext == Add \/ AppendRequires \/ SortCall \/ sortedLoop \/ sortedReturn

SortSpec == SortInit /\ [][SortNext]_vars

\* The loop of sorted keeps running until it returns.
FairSortSpec == SortSpec /\ WF_vars(sortedLoop) /\ WF_vars(sortedReturn)

(***************************************************************************)
(* BuildDiff.  The relations of the bundle are slices of endpoint strings;  *)
(* an endpoint string is kept as its parts around the ":".                  *)
(***************************************************************************)
MaxRelations == 2

\* The endpoint strings used here, in the byte-wise order of sort.Strings.
EndpointOrder ==
    << <<"django">>, <<"django2", "db">>, <<"django", "db">>,
       <<"django", "web">>, <<"wordpress">>, <<"wordpress", "db">> >>

EndpointLess(a, b) ==
    (CHOOSE i \in 1..Len(EndpointOrder) : EndpointOrder[i] = a)
       < (CHOOSE i \in 1..Len(EndpointOrder) : EndpointOrder[i] = b)

RECURSIVE InsertEndpoint(_, _)
InsertEndpoint(x, s) ==
    IF s = <<>> THEN <<x>>
    ELSE IF EndpointLess(x, Head(s)) THEN <<x>> \o s
    ELSE <<Head(s)>> \o InsertEndpoint(x, Tail(s))

\* sort.Strings on a slice of endpoint strings.
RECURSIVE sortEndpoints(_)
sortEndpoints(s) ==
    IF s = <<>> THEN <<>> ELSE InsertEndpoint(Head(s), sortEndpoints(Tail(s)))

\* relationFromEndpoints: `relation[:]` is the slice itself, so sort.Strings
\* orders the elements of the slice of the caller; `slice` is that slice
\* after the call.  An endpoint without ":" has no parts[1]: index out of
\* range.
relationFromEndpoints(relation) ==
    LET s == sortEndpoints(relation)
        panic == Len(s[1]) < 2 \/ Len(s[2]) < 2
    IN  [slice |-> s,
         panic |-> panic,
         Relation |-> IF panic THEN Relation("", "", "", "")
                      ELSE Relation(s[1][1], s[1][2], s[2][1], s[2][2])]

StringLessOrEqual(a, b) == a = b \/ StringLess(a, b)

canonicalRelation(relation) ==
    IF StringLess(relation.App1, relation.App2) THEN relation
    ELSE IF /\ relation.App1 = relation.App2
            /\ StringLessOrEqual(relation.Endpoint1, relation.Endpoint2)
    THEN relation
    ELSE Relation(relation.App2, relation.Endpoint2,
                  relation.App1, relation.Endpoint1)

relationLess(a, b) ==
    IF StringLess(a.App1, b.App1) THEN TRUE
    ELSE IF StringLess(b.App1, a.App1) THEN FALSE
    ELSE IF StringLess(a.Endpoint1, b.Endpoint1) THEN TRUE
    ELSE IF StringLess(b.Endpoint1, a.Endpoint1) THEN FALSE
    ELSE IF StringLess(a.App2, b.App2) THEN TRUE
    ELSE IF StringLess(b.App2, a.App2) THEN FALSE
    ELSE StringLess(a.Endpoint2, b.Endpoint2)

RECURSIVE InsertRelation(_, _)
InsertRelation(x, s) ==
    IF s = <<>> THEN <<x>>
    ELSE IF relationLess(x, Head(s)) THEN <<x>> \o s
    ELSE <<Head(s)>> \o InsertRelation(x, Tail(s))

\* sort.Slice(relations, relationLess(relations))
RECURSIVE sortRelations(_)
sortRelations(s) ==
    IF s = <<>> THEN <<>> ELSE InsertRelation(Head(s), sortRelations(Tail(s)))

\* The keys of a map of relations, in the order of relationLess.
RECURSIVE sortedKeys(_)
sortedKeys(S) ==
    IF S = {} THEN <<>>
    ELSE LET first == CHOOSE r \in S :
                         \A q \in S \ {r} : relationLess(r, q)
         IN  <<first>> \o sortedKeys(S \ {first})

toRelationSlices(relations) ==
    [i \in DOMAIN relations |->
        << <<relations[i].App1, relations[i].Endpoint1>>,
           <<relations[i].App2, relations[i].Endpoint2>> >>]

\* differ.diffRelations.  `relations` are the relations of the bundle as the
\* loop over them leaves them: it stops at the first relation on which
\* relationFromEndpoints panics.
diffRelations(bundle, m) ==
    LET from == [i \in DOMAIN bundle.Relations |->
                    relationFromEndpoints(bundle.Relations[i])]
        panics == {i \in DOMAIN from : from[i].panic}
        reached == {i \in DOMAIN from : \A j \in panics : i <= j}
        bundleSet == {from[i].Relation : i \in DOMAIN from}
        canonical == [i \in DOMAIN m.Relations |->
                         canonicalRelation(m.Relations[i])]
        modelSet == Range(canonical)
        IsModelExtra(relation) == relation \notin bundleSet
        modelExtra == SelectSeq(canonical, IsModelExtra)
        bundleExtra == sortedKeys(bundleSet \ modelSet)
    IN  [relations |-> [i \in DOMAIN from |->
                           IF i \in reached THEN from[i].slice
                           ELSE bundle.Relations[i]],
         panic |-> panics # {},
         diff |-> IF panics # {} THEN NilMap
                  ELSE IF bundleExtra = <<>> /\ modelExtra = <<>> THEN NilMap
                  ELSE [BundleExtra |-> toRelationSlices(bundleExtra),
                        ModelExtra |->
                           toRelationSlices(sortRelations(modelExtra))]]

\* differ.diffStrings, diffInts and diffBools
diffValues(bundle, m) ==
    IF bundle = m THEN NilMap ELSE [Bundle |-> bundle, Model |-> m]

ApplicationDiff(missing, charm, numUnits, expose) ==
    [Missing |-> missing, Charm |-> charm, NumUnits |-> numUnits,
     Expose |-> expose]

\* differ.diffApplication.  The constraints and the options are empty on
\* both sides here, and the configuration does not include the annotations.
diffApplication(bundle, m, name) ==
    IF name \notin DOMAIN bundle.Services
    THEN ApplicationDiff("bundle", NilMap, NilMap, NilMap)
    ELSE IF name \notin DOMAIN m.Applications
    THEN ApplicationDiff("model", NilMap, NilMap, NilMap)
    ELSE LET result ==
                ApplicationDiff(
                   "",
                   diffValues(bundle.Services[name].Charm,
                              m.Applications[name].Charm),
                   diffValues(bundle.Services[name].NumUnits,
                              Len(m.Applications[name].Units)),
                   diffValues(bundle.Services[name].Expose,
                              m.Applications[name].Exposed))
         IN  IF result = ApplicationDiff("", NilMap, NilMap, NilMap)
             THEN NilMap ELSE result

\* differ.diffApplications
diffApplications(bundle, m) ==
    LET allApps == DOMAIN bundle.Services \cup DOMAIN m.Applications
        results == [name \in {n \in allApps :
                                 diffApplication(bundle, m, n) # NilMap} |->
                       diffApplication(bundle, m, name)]
    IN  IF DOMAIN results = {} THEN NilMap ELSE results

\* differ.diffMachine, for a configuration that does not include the
\* annotations.
diffMachine(bundle, m, name) ==
    IF name \notin DOMAIN bundle.Machines THEN [Missing |-> "bundle"]
    ELSE IF <<name>> \notin m.Machines THEN [Missing |-> "model"]
    ELSE NilMap

\* differ.diffMachines
diffMachines(bundle, m) ==
    LET allNames == DOMAIN bundle.Machines
                       \cup {id[1] : id \in {i \in m.Machines : Len(i) = 1}}
        results == [name \in {n \in allNames :
                                 diffMachine(bundle, m, n) # NilMap} |->
                       diffMachine(bundle, m, name)]
    IN  IF DOMAIN results = {} THEN NilMap ELSE results

\* BuildDiff: differ.build evaluates the three diffs in turn.
BuildDiff ==
    /\ pc = "buildDiff"
    /\ LET relations == diffRelations(data, model)
       IN  /\ data' = [data EXCEPT !.Relations = relations.relations]
           /\ IF relations.panic
              THEN /\ pc' = "panic"
                   /\ diff' = diff
              ELSE /\ pc' = "done"
                   /\ diff' = [Applications |-> diffApplications(data, model),
                               Machines |-> diffMachines(data, model),
                               Relations |-> relations.diff]
    /\ UNCHANGED <<model, inferVars, allocVars, callVars, handlerVars,
                   changes, sortVars>>

\* The relations of the bundles that are compared: endpoints in and out of
\* the order of sort.Strings, and a relation without endpoint names.
DiffRelations ==
    {<< <<"django", "db">>, <<"wordpress", "db">> >>,
     << <<"wordpress", "db">>, <<"django", "db">> >>,
     << <<"wordpress", "db">>, <<"django", "web">> >>,
     << <<"wordpress">>, <<"django">> >>}

DiffBundles ==
    {TwoServices(
        ServiceSpec("cs:trusty/django-42", u1, <<>>, expose, NoAnnotations),
        ServiceSpec("wordpress", 0, <<>>, FALSE, NoAnnotations),
        machines, relations) :
       u1 \in 0..1, expose \in BOOLEAN,
       machines \in {EmptyMap, [m \in {"0"} |-> MachineSpec(NoAnnotations)]},
       relations \in UNION {[1..n -> DiffRelations] : n \in 0..MaxRelations}}

DiffModels ==
    {EmptyModel, DjangoModel,
     [EmptyModel EXCEPT
         !.Relations = <<Relation("django", "db", "wordpress", "db")>>],
     [DjangoModel EXCEPT
         !.Relations = <<Relation("wordpress", "db", "django", "db"),
                         Relation("django", "web", "wordpress", "db")>>]}

\* Bundles and models with an application whose name starts with the name
\* of another one: "django2:db" sorts before "django:db", "django" before
\* "django2".
PrefixRelations ==
    {<< <<"django", "db">>, <<"django2", "db">> >>,
     << <<"django2", "db">>, <<"django", "db">> >>,
     << <<"django2", "db">>, <<"wordpress", "db">> >>}

PrefixBundles ==
    {BundleData(
        [n \in {"django", "django2", "wordpress"} |->
            ServiceSpec(IF n = "wordpress" THEN "wordpress"
                        ELSE "cs:trusty/django-42",
                        0, <<>>, FALSE, NoAnnotations)],
        EmptyMap, relations) :
       relations \in UNION {[1..n -> PrefixRelations] : n \in 1..MaxRelations}}

PrefixModels ==
    {Model([n \in {"django", "django2", "wordpress"} |->
               Application(IF n = "wordpress" THEN "wordpress"
                           ELSE "cs:trusty/django-42", <<>>)],
           {}, relations, EmptyMap) :
       relations \in {<<>>,
                      <<Relation("django", "db", "django2", "db")>>,
                      <<Relation("django2", "db", "django", "db")>>,
                      <<Relation("wordpress", "db", "django2", "db")>>}}

\* The charms whose metadata says that they are subordinate.
SubordinateCharms == {"cs:xenial/nrpe-12"}

\* A bundle with a subordinate application, which has no units of its own
\* in the bundle, and models in which it runs next to the units of django.
SubordinateBundles ==
    {TwoServices(
        ServiceSpec("cs:trusty/django-42", 1, <<>>, FALSE, NoAnnotations),
        ServiceSpec("cs:xenial/nrpe-12", 0, <<>>, FALSE, NoAnnotations),
        [m \in {"0"} |-> MachineSpec(NoAnnotations)], <<>>)}

SubordinateModels ==
    {Model([n \in {"django", "wordpress"} |->
               IF n = "django"
               THEN Application("cs:trusty/django-42",
                                <<Unit("django/0", <<"0">>)>>)
               ELSE Application("cs:xenial/nrpe-12",
                                [i \in 1..k |->
                                    Unit(unitName("wordpress", i - 1),
                                         <<"0">>)])],
           {<<"0">>}, <<>>, EmptyMap) : k \in 0..MaxUnits}

\* Bundles that declare machines, and models with machines and a
\* MachineMap from machines of the bundle to machines of the model.
MappedBundles ==
    {TwoServices(
        ServiceSpec("cs:trusty/django-42", 0, <<>>, FALSE, NoAnnotations),
        ServiceSpec("wordpress", 0, <<>>, FALSE, NoAnnotations),
        [id \in ids |-> MachineSpec(NoAnnotations)], <<>>) :
       ids \in (SUBSET {"0", "1"}) \ {{}}}

MappedModels ==
    {Model(EmptyMap, {<<id>> : id \in ids}, <<>>, machineMap) :
       ids \in (SUBSET {"0", "1", "2"}) \ {{}},
       machineMap \in {EmptyMap, [b \in {"0"} |-> "1"],
                       [b \in {"0"} |-> "2"]}}

\* The machines that the MachineMap names are machines of both sides.
MappedInputs ==
    {input \in [data : MappedBundles, model : MappedModels] :
        \A b \in DOMAIN input.model.MachineMap :
           /\ b \in DOMAIN input.data.Machines
           /\ <<input.model.MachineMap[b]>> \in input.model.Machines}

DiffInit ==
    /\ \/ data \in DiffBundles /\ model \in DiffModels
       \/ data \in PrefixBundles /\ model \in PrefixModels
       \/ data \in SubordinateBundles /\ model \in SubordinateModels
       \/ \E input \in MappedInputs :
             data = input.data /\ model = input.model
    /\ changes = <<>>
    /\ addedServices = EmptyMap
    /\ addedMachines = EmptyMap
    /\ pc = "buildDiff"
    /\ queue = <<>>
    /\ records = {}
    /\ sorted = <<>>
    /\ machineMaps = <<>>
    /\ calls = <<>>
    /\ diff = NilMap
    /\ returned = NilMap

DiffNext == BuildDiff

DiffSpec == DiffInit /\ [][DiffNext]_vars

(***************************************************************************)
(* Model.HasRelation.                                                       *)
(***************************************************************************)
\* A mutant of HasRelation: the relation is looked for one way only.
HasRelationOneWay(m, App1, Endpoint1, App2, Endpoint2) ==
    \E i \in DOMAIN m.Relations :
       m.Relations[i] = Relation(App1, Endpoint1, App2, Endpoint2)

HasRelation(m, App1, Endpoint1, App2, Endpoint2) ==
    \E i \in DOMAIN m.Relations :
       LET rel == m.Relations[i]
           oneWay == Relation(App1, Endpoint1, App2, Endpoint2)
           other == Relation(App2, Endpoint2, App1, Endpoint1)
       IN  rel = oneWay \/ rel = other

\* The relations that the models hold and that are asked for.
RelationApps == {"django", "wordpress"}
RelationEndpoints == {"db", "web"}
Relations ==
    {Relation(a, x, b, y) : a \in RelationApps, x \in RelationEndpoints,
                            b \in RelationApps, y \in RelationEndpoints}

RelationModels ==
    {[EmptyModel EXCEPT !.Relations = relations] :
       relations \in UNION {[1..n -> Relations] : n \in 0..MaxRelations}}

\* A call of HasRelation on the model.
HasRelationCall ==
    /\ pc = "call"
    /\ \E asked \in Relations :
          returned' =
             [asked |-> asked,
              value |-> HasRelation(model, asked.App1, asked.Endpoint1,
                                    asked.App2, asked.Endpoint2)]
    /\ UNCHANGED <<diffVars, inputVars, inferVars, allocVars, handlerVars,
                   changes, pc, sortVars>>

HasRelationInit ==
    /\ data = BundleData(EmptyMap, EmptyMap, <<>>)
    /\ model \in RelationModels
    /\ changes = <<>>
    /\ addedServices = EmptyMap
    /\ addedMachines = EmptyMap
    /\ pc = "call"
    /\ queue = <<>>
    /\ records = {}
    /\ sorted = <<>>
    /\ machineMaps = <<>>
    /\ calls = <<>>
    /\ diff = NilMap
    /\ returned = NilMap

HasRelationNext == HasRelationCall

HasRelationSpec == HasRelationInit /\ [][HasRelationNext]_vars

(***************************************************************************)
(* Application.changedOptions.  An option value is an int, a float64 or a   *)
(* string; a float64 is kept as its number of tenths.                       *)
(***************************************************************************)
IntValue(n) == [type |-> "int", int |-> n]
FloatValue(tenths) == [type |-> "float64", tenths |-> tenths]
StringValue(s) == [type |-> "string", string |-> s]

\* The conversion int(cv) of a float64: the fraction is dropped.
intOfFloat64(cv) ==
    IntValue(IF cv.tenths >= 0 THEN cv.tenths \div 10
             ELSE -((-cv.tenths) \div 10))

\* changedOptions; a is nil (NilMap) for an application that does not exist.
changedOptions(a, options) ==
    IF a = NilMap \/ DOMAIN a.Options = {} THEN options
    ELSE LET found(key) == key \in DOMAIN a.Options
             current(key) ==
                IF ~found(key) THEN NilMap
                ELSE IF /\ options[key].type = "int"
                        /\ a.Options[key].type = "float64"
                THEN intOfFloat64(a.Options[key])
                ELSE a.Options[key]
         IN  [key \in {k \in DOMAIN options :
                          ~found(k) \/ current(k) # options[k]} |->
                 options[key]]

\* The options of the bundle and of the model.
OptionKeys == {"key-1", "key-2"}
BundleValues == {IntValue(42), IntValue(43), StringValue("value-1")}
ModelValues ==
    {IntValue(42), FloatValue(420), FloatValue(427), FloatValue(430), StringValue("value-1")}

OptionMaps(values) == UNION {[keys -> values] : keys \in SUBSET OptionKeys}

\* The application django of the model, nil when it is not deployed.
OptionModels ==
    {EmptyModel}
    \cup {[DjangoModel EXCEPT !.Applications["django"].Options = options] :
            options \in OptionMaps(ModelValues)}

\* A call of changedOptions on the application django of the model.
ChangedOptionsCall ==
    /\ pc = "call"
    /\ \E options \in OptionMaps(BundleValues) :
          returned' =
             [options |-> options,
              value |-> changedOptions(
                           IF "django" \in DOMAIN model.Applications
                           THEN model.Applications["django"] ELSE NilMap,
                           options)]
    /\ UNCHANGED <<diffVars, inputVars, inferVars, allocVars, handlerVars,
                   changes, pc, sortVars>>

ChangedOptionsInit ==
    /\ data = BundleData(EmptyMap, EmptyMap, <<>>)
    /\ model \in OptionModels
    /\ changes = <<>>
    /\ addedServices = EmptyMap
    /\ addedMachines = EmptyMap
    /\ pc = "call"
    /\ queue = <<>>
    /\ records = {}
    /\ sorted = <<>>
    /\ machineMaps = <<>>
    /\ calls = <<>>
    /\ diff = NilMap
    /\ returned = NilMap

ChangedOptionsNext == ChangedOptionsCall

ChangedOptionsSpec == ChangedOptionsInit /\ [][ChangedOptionsNext]_vars

(***************************************************************************)
(* Model.unsatisfiedMachineAndUnitPlacements.                               *)
(***************************************************************************)
\* getUnitMachine: the id of the machine of the unit, "" without the unit.
getUnitMachine(m, appName, index) ==
    IF appName \notin DOMAIN m.Applications THEN ""
    ELSE LET app == m.Applications[appName]
             target == unitName(appName, index)
             at == {i \in 1..Len(app.Units) : app.Units[i].Name = target}
         IN  IF at = {} THEN ""
             ELSE machineIdString(
                     app.Units[CHOOSE i \in at : \A j \in at : i <= j].Machine)

\* The switch of unsatisfiedMachineAndUnitPlacements: the directive is
\* appended to the result.
unsatisfied(m, sourceApp, p) ==
    IF p.Machine = "new" THEN TRUE
    ELSE IF p.Machine # ""
    THEN ~machineHasApp(m, p.Machine, sourceApp, p.ContainerType)
    ELSE IF p.Service # "" /\ p.Unit < 0 THEN TRUE
    ELSE IF p.Service # "" THEN
        LET machine == getUnitMachine(m, p.Service, p.Unit)
        IN  IF machine = "" THEN TRUE
            ELSE ~machineHasApp(m, machine, sourceApp, p.ContainerType)
    ELSE FALSE

unsatisfiedMachineAndUnitPlacements(m, sourceApp, placements) ==
    IF sourceApp \notin DOMAIN m.Applications THEN placements
    ELSE LET Keep(p) == unsatisfied(m, sourceApp, p)
         IN  SelectSeq(placements, Keep)

\* The directives that are filtered: new machines, the bundle machine 0,
\* the application wordpress and its units 0 and 1.
UnsatisfiedDirectives ==
    {UnitPlacement(c, "new", "", -1) : c \in {"", "lxd"}}
    \cup {UnitPlacement(c, "0", "", -1) : c \in {"", "lxd"}}
    \cup {UnitPlacement("", "", "wordpress", -1)}
    \cup {UnitPlacement(c, "", "wordpress", n) : c \in {"", "lxd"},
                                                 n \in 0..1}

\* The source application django is deployed or not.
UnsatisfiedModels == InferModels \cup {EmptyModel}

\* A call of unsatisfiedMachineAndUnitPlacements for the application django.
UnsatisfiedCall ==
    /\ pc = "call"
    /\ \E placements \in UNION {[1..n -> UnsatisfiedDirectives] :
                                  n \in 0..MaxDirectives} :
          returned' =
             [placements |-> placements,
              value |-> unsatisfiedMachineAndUnitPlacements(
                           model, "django", placements)]
    /\ UNCHANGED <<diffVars, inputVars, inferVars, allocVars, handlerVars,
                   changes, pc, sortVars>>

UnsatisfiedInit ==
    /\ data = BundleData(EmptyMap, EmptyMap, <<>>)
    /\ model \in UnsatisfiedModels
    /\ changes = <<>>
    /\ addedServices = EmptyMap
    /\ addedMachines = EmptyMap
    /\ pc = "call"
    /\ queue = <<>>
    /\ records = {}
    /\ sorted = <<>>
    /\ machineMaps = <<>>
    /\ calls = <<>>
    /\ diff = NilMap
    /\ returned = NilMap

UnsatisfiedNext == UnsatisfiedCall

UnsatisfiedSpec == UnsatisfiedInit /\ [][UnsatisfiedNext]_vars

(***************************************************************************)
(* The requires graph of a change list, for the statements below.          *)
(***************************************************************************)
\* Change i lists the id of change j in its requires.
Requires(cs, i, j) == cs[j].id \in Range(cs[i].requires)

RECURSIVE TransitiveClosure(_)
TransitiveClosure(R) ==
    LET Joined ==
            R \cup UNION {{<<e[1], f[2]>> : f \in {g \in R : g[1] = e[2]}} :
                           e \in R}
    IN  IF Joined = R THEN R ELSE TransitiveClosure(Joined)

\* i requires j, directly or through other changes.
RequiresPlus(cs) ==
    TransitiveClosure({<<i, j>> \in (1..Len(cs)) \X (1..Len(cs)) :
                          Requires(cs, i, j)})

HasCycle(cs) == \E i \in 1..Len(cs) : <<i, i>> \in RequiresPlus(cs)

\* Every required id is the id of a change of the list.
RequiresKnown(cs) ==
    \A i \in 1..Len(cs) : Range(cs[i].requires) \subseteq Ids(cs)

\* Neither change requires the other, directly or transitively.
Independent(cs, i, j) ==
    /\ <<i, j>> \notin RequiresPlus(cs)
    /\ <<j, i>> \notin RequiresPlus(cs)

\* Change i requires only changes added before it, and so do they.
RECURSIVE RequiresOnlyEarlier(_, _)
RequiresOnlyEarlier(cs, i) ==
    \A k \in 1..Len(cs[i].requires) :
       \E j \in 1..(i - 1) :
          /\ cs[j].id = cs[i].requires[k]
          /\ RequiresOnlyEarlier(cs, j)

\* The change with this id is in the list.
Listed(out, id) == \E k \in 1..Len(out) : out[k].id = id

\* The position in the list of the change with this id.
PositionOf(out, id) == CHOOSE k \in 1..Len(out) : out[k].id = id

\* The change with id a is in the list, before any change with id b.
Precedes(out, a, b) ==
    /\ Listed(out, a)
    /\ \A k \in 1..Len(out) : out[k].id = b => PositionOf(out, a) < k

C7_SortedTerminatesIffDrainable ==
    /\ (pc = "sort" /\ ~HasCycle(changes) /\ RequiresKnown(changes))
          ~> (pc = "done")
    /\ [](pc = "done" =>
             /\ Len(sorted) = Len(changes)
             /\ Range(sorted) = Range(changes))
    /\ [](pc = "done" => ~HasCycle(changes))

\* sorted returned a full change set in which a change requires a change
\* added after it.
C7_Witness ==
    /\ pc = "done"
    /\ Len(sorted) = MaxChanges
    /\ \E i, j \in 1..Len(changes) : i < j /\ Requires(changes, i, j)

(***************************************************************************)
(* C8.  When the requires graph has a cycle, or a change requires an id    *)
(* that no change of the set has, sorted ends the run with a fatal error:  *)
(* it neither loops forever nor returns a partial list.                     *)
(***************************************************************************)
C8_SortedAbortsWhenItCannotDrain ==
    (pc = "sort" /\ (HasCycle(changes) \/ ~RequiresKnown(changes)))
       ~> (pc = "fatal")

(***************************************************************************)
(* C9.  The sort is stable: of two changes neither of which requires the   *)
(* other, directly or transitively, the one added first comes first in the *)
(* output of sorted.                                                        *)
(***************************************************************************)
C9_SortedIsStable ==
    pc = "done" =>
       \A i, j \in 1..Len(changes) :
          (i < j /\ Independent(changes, i, j))
             => Precedes(sorted, changes[i].id, changes[j].id)

(***************************************************************************)
(* C9, amended.  Of two changes neither of which requires the other, the   *)
(* one added first comes first in the output of sorted provided it         *)
(* requires, directly and transitively, only changes added before it.  (A  *)
(* change that requires a change added after it is pushed to the end of    *)
(* the queue, behind independent changes added later.)  This holds of the  *)
(* output at every iteration of the loop.                                   *)
(***************************************************************************)
C9_SortedIsStableAmongBackwardChanges ==
    pc \in {"sort", "done"} =>
       \A i, j \in 1..Len(changes) :
          (/\ i < j
           /\ Independent(changes, i, j)
           /\ RequiresOnlyEarlier(changes, i)
           /\ Listed(sorted, changes[j].id))
             => Precedes(sorted, changes[i].id, changes[j].id)

\* sorted returned, and a change with requirements, all of them added
\* before it, precedes an independent change added after it.
C9_Witness ==
    /\ pc = "done"
    /\ \E i, j \in 1..Len(changes) :
          /\ i < j
          /\ Independent(changes, i, j)
          /\ RequiresOnlyEarlier(changes, i)
          /\ Len(changes[i].requires) > 0
          /\ Precedes(sorted, changes[i].id, changes[j].id)

(***************************************************************************)
(* Helpers for the claims about the plan of FromData.                       *)
(***************************************************************************)
\* The positions in cs of the addUnit changes of the service, in order.
UnitChanges(cs, name) ==
    {i \in 1..Len(cs) :
        /\ cs[i].method = "addUnit"
        /\ name \in DOMAIN addedServices
        /\ cs[i].Params.Service = "$" \o addedServices[name]}

\* The number of units of the application in the existing deployment.
ExistingUnits(name) ==
    IF name \in DOMAIN model.Applications
    THEN Len(model.Applications[name].Units) ELSE 0

Max(a, b) == IF a > b THEN a ELSE b

\* The applications of the deployment after the plan is applied to it.
AppliedApplications ==
    DOMAIN model.Applications
    \cup {c.Params.Service : c \in {d \in Range(sorted) : d.method = "deploy"}}

\* The relations of the deployment after the plan is applied to it, each as
\* the set of its two endpoints.
AppliedRelations ==
    {{"$" \o Get(addedServices, r.App1) \o ":" \o r.Endpoint1,
      "$" \o Get(addedServices, r.App2) \o ":" \o r.Endpoint2} :
        r \in Range(model.Relations)}
    \cup {{c.Params.Endpoint1, c.Params.Endpoint2} :
             c \in {d \in Range(sorted) : d.method = "addRelation"}}

\* The relations of the bundle, each as the set of its two endpoints.
BundleRelations ==
    {{relationEndpoint(r[1], addedServices).arg,
      relationEndpoint(r[2], addedServices).arg} :
        r \in Range(data.Relations)}

\* The graph application -> applications named in its placement directives.
PlacementGraph(bundle) ==
    UNION {{<<name, p.Service>> :
               p \in {q \in Range(bundle.Services[name].To) : q.Service # ""}} :
           name \in DOMAIN bundle.Services}

PlacementCycle(bundle) ==
    \E e \in TransitiveClosure(PlacementGraph(bundle)) : e[1] = e[2]

(***************************************************************************)
(* C1.  In the list that FromData returns every id that a change requires  *)
(* is the id of a change at a strictly smaller index.                       *)
(***************************************************************************)
C1_RequiresAppearEarlier ==
    pc = "done" =>
       \A i \in 1..Len(sorted) :
          \A r \in Range(sorted[i].requires) :
             \E j \in 1..(i - 1) : sorted[j].id = r

\* FromData returned a plan for a bundle whose handlers added a change
\* before a change that it requires.
C1_Witness ==
    /\ pc = "done"
    /\ DOMAIN data.Services # {}
    /\ \E i, j \in 1..Len(changes) : i < j /\ Requires(changes, i, j)

(***************************************************************************)
(* C2.  Applying the returned plan to the existing deployment gives the    *)
(* applications of the bundle, the relations of the bundle (the two        *)
(* endpoints in either order) and, for every application, as many units as *)
(* the bundle asks for.                                                     *)
(***************************************************************************)
C2_AppliedPlanEqualsBundle ==
    pc = "done" =>
       /\ AppliedApplications = DOMAIN data.Services
       /\ AppliedRelations = BundleRelations
       /\ \A name \in DOMAIN data.Services :
             ExistingUnits(name) + Cardinality(UnitChanges(sorted, name))
                = data.Services[name].NumUnits

(***************************************************************************)
(* C3.  For every application of the bundle the returned plan holds        *)
(* exactly max(0, NumUnits - units already deployed) addUnit changes.       *)
(***************************************************************************)
C3_AddUnitOnlyForMissingUnits ==
    pc = "done" =>
       \A name \in DOMAIN data.Services :
          Cardinality(UnitChanges(sorted, name))
             = Max(0, data.Services[name].NumUnits - ExistingUnits(name))

(***************************************************************************)
(* C4.  Two runs of InferMachineMap on the same bundle and the same        *)
(* deployment leave the same MachineMap, whatever the orders in which the   *)
(* maps are iterated.                                                       *)
(***************************************************************************)
C4_InferMachineMapIsDeterministic ==
    \A i, j \in 1..Len(machineMaps) : machineMaps[i] = machineMaps[j]

\* The other half of the determinism contract: a handler of FromData leaves
\* the same change set whatever the order in which its map is iterated.
FromDataIsDeterministic ==
    [][/\ pc = "handleServices" =>
             \A order \in IterationOrders(DOMAIN data.Services) :
                handleServices(changes, data.Services, data.Series,
                               order).cs = changes'
       /\ pc = "handleMachines" =>
             \A order \in IterationOrders(DOMAIN data.Machines) :
                handleMachines(changes, data.Machines, data.Series,
                               order).cs = changes'
       /\ pc = "handleUnits" =>
             \A order \in IterationOrders(DOMAIN data.Services) :
                handleUnits(changes, data.Services, addedServices,
                            addedMachines, data.Series, order).cs = changes'
      ]_vars

(***************************************************************************)
(* C5.  When the placement directives of the bundle make a cycle between   *)
(* applications, an application that names one of its own units included,  *)
(* a run of FromData that has ended has ended with an error and has        *)
(* returned no change.                                                      *)
(***************************************************************************)
C5_PlacementCycleIsAnError ==
    (PlacementCycle(data) /\ pc \in {"done", "panic", "error"})
       => (pc = "error" /\ sorted = <<>>)

(***************************************************************************)
(* C10.  An addUnit change of an application, the first one left aside,    *)
(* requires the addUnit change added just before it for the application,   *)
(* and the returned plan lists the addUnit changes of an application in    *)
(* the order in which they were added.                                      *)
(***************************************************************************)
C10_AddUnitRequiresPreviousUnit ==
    /\ pc \in {"sort", "done"} =>
          \A name \in DOMAIN data.Services :
             \A i, j \in UnitChanges(changes, name) :
                (i < j /\ \A k \in UnitChanges(changes, name) :
                             ~(i < k /\ k < j))
                   => changes[i].id \in Range(changes[j].requires)
    /\ pc = "done" =>
          \A name \in DOMAIN data.Services :
             \A i, j \in UnitChanges(changes, name) :
                i < j => Precedes(sorted, changes[i].id, changes[j].id)

(***************************************************************************)
(* Helpers for the claims about the charms of a plan.                       *)
(***************************************************************************)
\* Model.hasCharm
hasCharm(m, charm) ==
    /\ Cardinality(DOMAIN m.Applications) # 0
    /\ \E name \in DOMAIN m.Applications :
          m.Applications[name].Charm = charm

\* The positions in cs of the addCharm changes.
AddCharms(cs) == {i \in 1..Len(cs) : cs[i].method = "addCharm"}

\* The position in cs of the deploy change of the service.
DeployOf(cs, name) == CHOOSE i \in 1..Len(cs) : cs[i].id = addedServices[name]

\* The addCharm change at this position is for the charm and series of the
\* service.
CharmOf(cs, i, name) ==
    /\ cs[i].Params.Charm = data.Services[name].Charm
    /\ cs[i].Params.Series = getSeries(data.Services[name], data.Series)

\* handleServices added an addCharm change when it handled the service: the
\* change added just before the deploy change of the service.
AddCharmEmittedFor(cs, name) ==
    /\ DeployOf(cs, name) > 1
    /\ cs[DeployOf(cs, name) - 1].method = "addCharm"

(***************************************************************************)
(* C11.  No two addCharm changes of a run have the same charm and series,  *)
(* and the deploy changes of two services with the same charm and series   *)
(* name, and require, one and the same addCharm change for that charm and  *)
(* series.                                                                  *)
(***************************************************************************)
C11_OneAddCharmPerCharmAndSeries ==
    /\ \A i, j \in AddCharms(changes) :
          (/\ changes[i].Params.Charm = changes[j].Params.Charm
           /\ changes[i].Params.Series = changes[j].Params.Series) => i = j
    /\ pc # "handleServices" =>
          \A a, b \in DOMAIN data.Services :
             (/\ a # b
              /\ data.Services[a].Charm = data.Services[b].Charm
              /\ getSeries(data.Services[a], data.Series)
                    = getSeries(data.Services[b], data.Series))
                => \E i \in AddCharms(changes) :
                      /\ changes[i].Params.Charm = data.Services[a].Charm
                      /\ \A n \in {a, b} :
                            LET deploy == changes[DeployOf(changes, n)]
                            IN  /\ deploy.Params.Charm = "$" \o changes[i].id
                                /\ changes[i].id \in Range(deploy.requires)

\* FromData returned a plan for two services with units that have the same
\* charm and the same series.
C11_Witness ==
    /\ pc = "done"
    /\ data.Services["django"].Charm = data.Services["wordpress"].Charm
    /\ getSeries(data.Services["django"], data.Series)
          = getSeries(data.Services["wordpress"], data.Series)
    /\ Cardinality(AddCharms(sorted)) = 1
    /\ data.Services["wordpress"].NumUnits > 0

(***************************************************************************)
(* C12.  handleServices adds an addCharm change for a service exactly when *)
(* no addCharm change for its charm and series was added before and no     *)
(* application of the model has its charm; and when the model has the      *)
(* charm the deploy change of the service requires no addCharm change.      *)
(***************************************************************************)
C12_AddCharmIffNewAndNotInModel ==
    pc # "handleServices" =>
       \A name \in DOMAIN data.Services :
          LET deploy == DeployOf(changes, name)
              addedBefore ==
                  \E i \in AddCharms(changes) :
                     /\ i < deploy - 1
                     /\ CharmOf(changes, i, name)
              inModel == hasCharm(model, data.Services[name].Charm)
          IN  /\ AddCharmEmittedFor(changes, name)
                    <=> (~addedBefore /\ ~inModel)
              /\ inModel =>
                    \A i \in AddCharms(changes) :
                       changes[i].id \notin Range(changes[deploy].requires)

(***************************************************************************)
(* Helpers for the claims about the sequence of a Model.                    *)
(***************************************************************************)
\* The highest number of the set, and -1 for the empty set.
Highest(S) == IF S = {} THEN -1 ELSE CHOOSE n \in S : \A k \in S : k <= n

\* The numbers of the units of the application in the model.
UnitNumbers(m, app) ==
    IF app \in DOMAIN m.Applications
    THEN {unitNumber(u.Name) : u \in Range(m.Applications[app].Units)}
    ELSE {}

\* The numbers of the top level machines of the model.
MachineNumbers(m) == {Atoi(id[1]) : id \in {i \in m.Machines : Len(i) = 1}}

\* The numbers of the containers of the type on the parent in the model.
ContainerNumbers(m, parent, type) ==
    {Atoi(id[Len(id)]) :
        id \in {i \in m.Machines :
                   /\ Len(i) >= 3
                   /\ i[Len(i) - 1] = type
                   /\ machineIdString(SubSeq(i, 1, Len(i) - 2)) = parent}}

\* The name that the first call of its kind returns when the sequence is
\* inferred from the model.
InferredName(m, call) ==
    IF call.fn = "nextUnit"
    THEN call.arg1 \o "/" \o ToString(Highest(UnitNumbers(m, call.arg1)) + 1)
    ELSE IF call.fn = "nextMachine"
    THEN ToString(Highest(MachineNumbers(m)) + 1)
    ELSE call.arg1 \o "/" \o call.arg2 \o "/"
            \o ToString(Highest(ContainerNumbers(m, call.arg1, call.arg2)) + 1)

\* The name that the first call of its kind returns when the sequence is
\* supplied.
SuppliedName(m, call) ==
    LET key == IF call.fn = "nextUnit" THEN "application-" \o call.arg1
               ELSE IF call.fn = "nextMachine" THEN "machine"
               ELSE "machine-" \o call.arg1 \o "/" \o call.arg2
        n == IF key \in DOMAIN m.Sequence THEN m.Sequence[key] ELSE 0
    IN  IF call.fn = "nextUnit" THEN call.arg1 \o "/" \o ToString(n)
        ELSE IF call.fn = "nextMachine" THEN ToString(n)
        ELSE call.arg1 \o "/" \o call.arg2 \o "/" \o ToString(n)

\* The k-th name given to the planning call t is the first for its call.
FirstOfItsCall(t, k) ==
    \A j \in 1..(k - 1) : calls[t].out[j].call # calls[t].out[k].call

(***************************************************************************)
(* C13.  Without a supplied Sequence the first nextUnit of an application  *)
(* returns the unit one past its highest unit in the model, the first      *)
(* nextMachine the machine one past the highest top level machine and the  *)
(* first nextContainer the container one past the highest container of the *)
(* type on the parent (number 0 where there is none); with a supplied      *)
(* Sequence the first calls return its values and nothing is inferred.      *)
(***************************************************************************)
C13_SequenceIsInferredOrSupplied ==
    \A t \in DOMAIN calls :
       \A k \in 1..Len(calls[t].out) :
          FirstOfItsCall(t, k) =>
             calls[t].out[k].name =
                IF model.Sequence = NilMap
                THEN InferredName(model, calls[t].out[k].call)
                ELSE SuppliedName(model, calls[t].out[k].call)

\* Without a supplied Sequence a planning call was given the unit after two
\* units listed out of order and the container after a container that is
\* not number 0.
C13_Witness ==
    /\ model.Sequence = NilMap
    /\ Len(calls[1].out) = 2
    /\ calls[1].out[1] = [call |-> nextUnitCall("django"), name |-> "django/4"]
    /\ calls[1].out[2] =
          [call |-> nextContainerCall("0", "lxd"), name |-> "0/lxd/3"]

(***************************************************************************)
(* Helpers for the claim about planning calls on separate threads.          *)
(***************************************************************************)
\* The sequence that initializeSequence leaves when a planning call runs
\* alone.
AloneSequence(m) ==
    initializeSequence(
       m, CHOOSE o \in IterationOrders(DOMAIN m.Applications) : TRUE,
       CHOOSE o \in IterationOrders(m.Machines) : TRUE)

\* The k-th name that the planning call t is given when it runs alone and
\* makes the calls it made.
AloneName(t, k) ==
    LET call == calls[t].out[k].call
        before == Cardinality({j \in 1..(k - 1) :
                                  calls[t].out[j].call = call})
    IN  sequenceName(call, sequenceValue(AloneSequence(model),
                                         sequenceKey(call)) + before)

(***************************************************************************)
(* C19.  Two planning calls on separate threads that share a Model are     *)
(* safe: planning writes no field of the Model, no call ends in a runtime  *)
(* error, and every call is given the names it is given when it runs       *)
(* alone.                                                                   *)
(***************************************************************************)
C19_SharedModelIsSafe ==
    /\ model.sequence = NilMap
    /\ pc # "fatal"
    /\ \A t \in DOMAIN calls :
          \A k \in 1..Len(calls[t].out) : calls[t].out[k].name = AloneName(t, k)

(***************************************************************************)
(* Helpers for the claims about the placement of units.                     *)
(***************************************************************************)
\* The position in cs of the addUnit change of the unit number u of the
\* service.
UnitChangeAt(cs, name, u) ==
    CHOOSE i \in UnitChanges(cs, name) :
       Cardinality({j \in UnitChanges(cs, name) : j < i}) = u

\* The ids of the addMachines changes of the machines of the bundle.
BundleMachineIds == {addedMachines[m] : m \in DOMAIN addedMachines}

\* The change with this id adds a machine that is not one of the bundle, or
\* a container of the type on such a machine.
IsNewMachine(cs, id, containerType) ==
    \E k \in 1..Len(cs) :
       /\ cs[k].id = id
       /\ cs[k].method = "addMachines"
       /\ cs[k].Params.ContainerType = containerType
       /\ cs[k].Params.ParentId = ""
       /\ id \notin BundleMachineIds

\* The change with this id adds a container of the type in what the change
\* parentId adds.
IsContainerIn(cs, id, containerType, parentId) ==
    \E k \in 1..Len(cs) :
       /\ cs[k].id = id
       /\ cs[k].method = "addMachines"
       /\ cs[k].Params.ContainerType = containerType
       /\ cs[k].Params.ParentId = "$" \o parentId

\* The addUnit change at position i is placed to the change with the id
\* parentId, or to a container of the type in it.
PlacedIn(cs, i, containerType, parentId) ==
    IF containerType = "" THEN cs[i].Params.To = "$" \o parentId
    ELSE \E k \in 1..Len(cs) :
            /\ cs[i].Params.To = "$" \o cs[k].id
            /\ IsContainerIn(cs, cs[k].id, containerType, parentId)

\* The addUnit change at position i of cs is placed as the directive p says.
PlacedAs(cs, i, p) ==
    IF p.Machine = "new"
    THEN \E k \in 1..Len(cs) :
            /\ cs[i].Params.To = "$" \o cs[k].id
            /\ IsNewMachine(cs, cs[k].id, p.ContainerType)
    ELSE IF p.Machine # ""
    THEN PlacedIn(cs, i, p.ContainerType, addedMachines[p.Machine])
    ELSE \E t \in UnitChanges(cs, p.Service) :
            /\ p.Unit # -1 => t = UnitChangeAt(cs, p.Service, p.Unit)
            /\ PlacedIn(cs, i, p.ContainerType, cs[t].id)

\* The addUnit change at position i of cs has no placement target, or is
\* placed on a new machine of its own.
OnFreshMachine(cs, i) ==
    \/ cs[i].Params.To = ""
    \/ /\ PlacedAs(cs, i, UnitPlacement("", "new", "", -1))
       /\ \A j \in 1..Len(cs) :
             (j # i /\ cs[j].method = "addUnit")
                => cs[j].Params.To # cs[i].Params.To

\* The services of the bundle with fewer directives than units, and at
\* least one.
ShortOfDirectives ==
    {name \in DOMAIN data.Services :
        /\ Len(data.Services[name].To) > 0
        /\ Len(data.Services[name].To) < data.Services[name].NumUnits}

\* The last directive of the service.
LastDirective(name) ==
    data.Services[name].To[Len(data.Services[name].To)]

\* The numbers of the units of the service beyond its directives.
UnitsBeyondDirectives(name) ==
    Len(data.Services[name].To)..(data.Services[name].NumUnits - 1)

C15_FinalPlacementNotReused ==
    pc \in {"sort", "done"} =>
       \A name \in ShortOfDirectives :
          (/\ LastDirective(name).ContainerType = ""
           /\ \/ LastDirective(name).Machine \notin {"", "new"}
              \/ LastDirective(name).Unit # -1)
             => \A u \in UnitsBeyondDirectives(name) :
                   LET i == UnitChangeAt(changes, name, u)
                   IN  /\ ~PlacedAs(changes, i, LastDirective(name))
                       /\ OnFreshMachine(changes, i)

C17_MoreUnitsThanTheTargetService ==
    \A x, y \in DOMAIN data.Services :
       (/\ x # y
        /\ data.Services[x].To = <<UnitPlacement("", "", y, -1)>>
        /\ data.Services[x].NumUnits
              > data.Services[y].NumUnits + ExistingUnits(y))
          => /\ pc # "panic"
             /\ pc \in {"sort", "done"} =>
                   \A u \in 0..(data.Services[x].NumUnits - 1) :
                      LET i == UnitChangeAt(changes, x, u)
                      IN  IF u < data.Services[y].NumUnits
                          THEN PlacedAs(changes, i,
                                        UnitPlacement("", "", y, u))
                          ELSE OnFreshMachine(changes, i)

(***************************************************************************)
(* C18.  The machines of the bundle are handled in the numeric order of    *)
(* their ids: the addMachines change of a machine with a lower number is   *)
(* added before the one of a machine with a higher number.                  *)
(***************************************************************************)
C18_MachinesInNaturalOrder ==
    pc \notin {"handleServices", "handleMachines"} =>
       \A a, b \in DOMAIN data.Machines :
          Atoi(a) < Atoi(b)
             => PositionOf(changes, addedMachines[a])
                   < PositionOf(changes, addedMachines[b])

(***************************************************************************)
(* C20.  BuildDiff reads its inputs only: when it has returned, the       *)
(* bundle is as it was, every relation of the bundle with its endpoints in *)
(* their order, and no field of the model is written.                       *)
(***************************************************************************)
C20_BuildDiffIsReadOnly ==
    [][(BuildDiff /\ pc' = "done") => (data' = data /\ model' = model)]_vars

(***************************************************************************)
(* Helpers for the statements about the BundleDiff.                         *)
(***************************************************************************)
\* A relation without the order of its two endpoints.
Unordered(slice) == {slice[1], slice[2]}

\* The relations of the bundle and of the model, without order.
BundleRelationSet == {Unordered(r) : r \in Range(data.Relations)}
ModelRelationSet ==
    {{<<r.App1, r.Endpoint1>>, <<r.App2, r.Endpoint2>>} :
        r \in Range(model.Relations)}

\* The slices of a list of the diff, each once, are the relations of the set.
ListsExactly(slices, S) ==
    /\ {Unordered(r) : r \in Range(slices)} = S
    /\ Len(slices) = Cardinality(S)

\* The slices are in the order of (App1, Endpoint1, App2, Endpoint2).
SortedSlices(slices) ==
    \A i, j \in DOMAIN slices :
       i < j => ~relationLess(
                   Relation(slices[j][1][1], slices[j][1][2],
                            slices[j][2][1], slices[j][2][2]),
                   Relation(slices[i][1][1], slices[i][1][2],
                            slices[i][2][1], slices[i][2][2]))

(***************************************************************************)
(* C21.  The relations of the BundleDiff are the symmetric difference of   *)
(* the relations of the bundle and of the model, compared without the      *)
(* order of the endpoints: BundleExtra lists each relation that only the   *)
(* bundle has once, ModelExtra each relation that only the model has once, *)
(* both sorted, and the relations diff is nil when both are empty.          *)
(***************************************************************************)
C21_RelationsDiffIsSymmetricDifference ==
    pc = "done" /\ diff # NilMap =>
       LET bundleOnly == BundleRelationSet \ ModelRelationSet
           modelOnly == ModelRelationSet \ BundleRelationSet
       IN  IF bundleOnly = {} /\ modelOnly = {}
           THEN diff.Relations = NilMap
           ELSE /\ diff.Relations # NilMap
                /\ ListsExactly(diff.Relations.BundleExtra, bundleOnly)
                /\ ListsExactly(diff.Relations.ModelExtra, modelOnly)
                /\ SortedSlices(diff.Relations.BundleExtra)
                /\ SortedSlices(diff.Relations.ModelExtra)

\* BundleDiff.Empty
Empty(d) ==
    d.Applications = NilMap /\ d.Machines = NilMap /\ d.Relations = NilMap

\* The applications of both sides whose charm is subordinate.
Subordinates ==
    {name \in DOMAIN data.Services \cap DOMAIN model.Applications :
        model.Applications[name].Charm \in SubordinateCharms}

(***************************************************************************)
(* C22.  The BundleDiff reports no difference of num_units for a           *)
(* subordinate application, whatever the numbers of both sides are; when   *)
(* the sides differ in nothing but the units of subordinate applications   *)
(* the BundleDiff is empty.                                                 *)
(***************************************************************************)
C22_NumUnitsIgnoredForSubordinates ==
    pc = "done" /\ diff # NilMap =>
       /\ \A name \in Subordinates :
             \/ diff.Applications = NilMap
             \/ name \notin DOMAIN diff.Applications
             \/ diff.Applications[name].NumUnits = NilMap
       /\ (/\ diff.Machines = NilMap
           /\ diff.Relations = NilMap
           /\ DOMAIN data.Services = DOMAIN model.Applications
           /\ \A name \in DOMAIN data.Services :
                 /\ data.Services[name].Charm = model.Applications[name].Charm
                 /\ data.Services[name].Expose
                       = model.Applications[name].Exposed
                 /\ name \notin Subordinates
                       => data.Services[name].NumUnits
                             = Len(model.Applications[name].Units))
             => Empty(diff)

\* The id of the machine of the model that the machine of the bundle is
\* matched to.
Matched(b) ==
    IF b \in DOMAIN model.MachineMap THEN model.MachineMap[b] ELSE b

\* The machines of the bundle whose matched machine the model does not have,
\* and the machines of the model that no machine of the bundle is matched to.
UnmatchedBundleMachines ==
    {b \in DOMAIN data.Machines : <<Matched(b)>> \notin model.Machines}
UnmatchedModelMachines ==
    {id[1] : id \in {i \in model.Machines : Len(i) = 1}}
       \ {Matched(b) : b \in DOMAIN data.Machines}

(***************************************************************************)
(* C23.  The machines of the BundleDiff follow the MachineMap: a machine   *)
(* of the bundle is matched to the machine of the model that the map       *)
(* names, or to the one with its own id; exactly the unmatched machines of *)
(* the bundle are missing from the model and exactly the unmatched         *)
(* machines of the model are missing from the bundle.                       *)
(***************************************************************************)
C23_MachinesAreMatchedThroughMachineMap ==
    pc = "done" /\ diff # NilMap =>
       LET expected ==
              [name \in UnmatchedBundleMachines \cup UnmatchedModelMachines |->
                  [Missing |-> IF name \in UnmatchedBundleMachines
                               THEN "model" ELSE "bundle"]]
       IN  diff.Machines = IF DOMAIN expected = {} THEN NilMap ELSE expected

(***************************************************************************)
(* C24.  HasRelation(a, x, b, y) is what HasRelation(b, y, a, x) is, and   *)
(* it is true exactly when the relations of the model hold (a, x, b, y) or *)
(* (b, y, a, x).                                                            *)
(***************************************************************************)
C24_HasRelationIsSymmetric ==
    returned # NilMap =>
       LET r == returned.asked
       IN  /\ returned.value
                 = HasRelation(model, r.App2, r.Endpoint2, r.App1, r.Endpoint1)
           /\ returned.value
                 <=> \/ r \in Range(model.Relations)
                     \/ Relation(r.App2, r.Endpoint2, r.App1, r.Endpoint1)
                           \in Range(model.Relations)

\* HasRelation was asked for a relation that the model holds the other way
\* round only, and returned true.
C24_Witness ==
    /\ returned # NilMap
    /\ returned.value
    /\ returned.asked \notin Range(model.Relations)
    /\ returned.asked.App1 # returned.asked.App2

(***************************************************************************)
(* C25.  At every point of planning each id in the requires of a change is *)
(* the id of a change that was added to the change set before that change. *)
(***************************************************************************)
C25_RequiresPointBackwards ==
    \A i \in 1..Len(changes) :
       \A r \in Range(changes[i].requires) :
          \E j \in 1..(i - 1) : changes[j].id = r

(***************************************************************************)
(* C25, amended.  At every point of planning each id in the requires of a  *)
(* change is the id of a change of the change set.  That change was added  *)
(* before the one that requires it, except for the placement target of an  *)
(* addUnit change: handleUnits adds the addUnit changes first and appends  *)
(* the id of the parent to their requires afterwards.                       *)
(***************************************************************************)
C25_RequiresPointBackwardsButForPlacement ==
    \A i \in 1..Len(changes) :
       \A r \in Range(changes[i].requires) :
          /\ Listed(changes, r)
          /\ PositionOf(changes, r) >= i
                => /\ changes[i].method = "addUnit"
                   /\ changes[i].Params.To = "$" \o r

\* handleUnits has placed a unit in a container that it added after the
\* addUnit change of the unit.
C25_Witness ==
    /\ pc = "sort"
    /\ \E i, j \in 1..Len(changes) :
          /\ i < j
          /\ Requires(changes, i, j)
          /\ changes[i].method = "addUnit"
          /\ changes[j].Params.ParentId # ""

\* The options of the application django of the model.
ModelOptions ==
    IF "django" \in DOMAIN model.Applications
    THEN model.Applications["django"].Options ELSE EmptyMap

\* The value of the model is the value of the bundle: the same value, or
\* for an int of the bundle the float64 that is exactly that integer.
SameOption(current, value) ==
    \/ current = value
    \/ /\ value.type = "int"
       /\ current.type = "float64"
       /\ current.tenths = 10 * value.int

(***************************************************************************)
(* C26.  changedOptions returns exactly the options of the bundle whose    *)
(* key the model does not have or whose value in the model differs; for an *)
(* int of the bundle a float64 of the model is equal only when it is       *)
(* exactly that integer, and a float64 with a fraction is never narrowed.   *)
(***************************************************************************)
C26_ChangedOptionsAreTheDifferingOnes ==
    returned # NilMap =>
       returned.value
          = [key \in {k \in DOMAIN returned.options :
                         \/ k \notin DOMAIN ModelOptions
                         \/ ~SameOption(ModelOptions[k], returned.options[k])}
                |-> returned.options[key]]

\* A unit of the application runs on the machine with this id, or in a
\* container of the type on it when a type is given.
RunsOn(app, machine, containerType) ==
    /\ app \in DOMAIN model.Applications
    /\ \E u \in Range(model.Applications[app].Units) :
          IF containerType = "" THEN u.Machine = machine
          ELSE /\ machineContainerType(u.Machine) = containerType
               /\ machineParent(u.Machine) = machine

\* The machine of the model that the directive leads to: the machine that
\* the bundle machine is mapped to, or the machine of the unit; <<>> when
\* the unit does not exist.
TargetMachine(p) ==
    IF p.Machine # "" THEN <<Matched(p.Machine)>>
    ELSE LET units == {u \in Range(model.Applications[p.Service].Units) :
                          u.Name = unitName(p.Service, p.Unit)}
         IN  IF p.Service \notin DOMAIN model.Applications \/ units = {}
             THEN <<>>
             ELSE (CHOOSE u \in units : TRUE).Machine

\* The directive is to be kept for the source application.
Unsatisfied(app, p) ==
    \/ p.Machine = "new"
    \/ p.Machine = "" /\ p.Unit = -1
    \/ p.Machine = "" /\ TargetMachine(p) = <<>>
    \/ ~RunsOn(app, TargetMachine(p), p.ContainerType)

(***************************************************************************)
(* C27.  unsatisfiedMachineAndUnitPlacements returns the directives of the *)
(* list, in their order, that are not satisfied: every `new` and every     *)
(* application directive, every unit directive whose unit does not exist,  *)
(* and a machine or unit directive exactly when no unit of the source      *)
(* application runs on that machine (in a container of the type, if one is *)
(* given); the whole list when the source application is not deployed.      *)
(***************************************************************************)
C27_UnsatisfiedPlacementsAreKept ==
    returned # NilMap =>
       LET Keep(p) == Unsatisfied("django", p)
       IN  returned.value
              = IF "django" \in DOMAIN model.Applications
                THEN SelectSeq(returned.placements, Keep)
                ELSE returned.placements

\* The machine ids and the unit names that the model holds.
ExistingNames ==
    {machineIdString(id) : id \in model.Machines}
    \cup UNION {{u.Name : u \in Range(model.Applications[a].Units)} :
                  a \in DOMAIN model.Applications}

\* The names that the planning call t was given.
NamesGiven(t) == {calls[t].out[k].name : k \in 1..Len(calls[t].out)}

\* The step is the return of a call of nextMachine, nextContainer or
\* nextUnit: the name is new, and the counter of the call, and no other, is
\* one higher.
FreshName(t) ==
    LET name == calls'[t].out[Len(calls'[t].out)].name
        key == sequenceKey(calls[t].call)
    IN  /\ name \notin ExistingNames
        /\ name \notin NamesGiven(t)
        /\ model'.sequence
              = Put(model.sequence, key, sequenceValue(model.sequence, key) + 1)

(***************************************************************************)
(* C28.  After initializeSequence, with or without a Sequence given by the *)
(* caller, every name that nextMachine, nextContainer and nextUnit return  *)
(* differs from every machine id and unit name of the model and from every *)
(* name returned before; a call advances its own counter by one and leaves *)
(* the others.                                                              *)
(***************************************************************************)
C28_AllocatedNamesAreFresh ==
    [][\A t \in DOMAIN calls : NextWrite(t) => FreshName(t)]_vars

\* The Sequence of the caller is past every number that the model holds.
SequenceCovers ==
    /\ \A a \in DOMAIN model.Applications :
          \A u \in Range(model.Applications[a].Units) :
             sequenceValue(model.Sequence, "application-" \o a)
                > unitNumber(u.Name)
    /\ \A id \in model.Machines :
          sequenceValue(model.Sequence, machineKey(id)) > Atoi(id[Len(id)])

(***************************************************************************)
(* C28, amended.  A call of nextMachine, nextContainer or nextUnit always  *)
(* advances its own counter by one and leaves the others, and never        *)
(* returns a name twice.  The name differs from every machine id and unit  *)
(* name of the model when the sequence was inferred, or when the Sequence  *)
(* given by the caller is past every number that the model holds: the      *)
(* values of a given Sequence are used as they are.                         *)
(***************************************************************************)
C28_AllocatedNamesAreFreshForCoveringSequence ==
    [][\A t \in DOMAIN calls :
          NextWrite(t) =>
             LET name == calls'[t].out[Len(calls'[t].out)].name
                 key == sequenceKey(calls[t].call)
             IN  /\ name \notin NamesGiven(t)
                 /\ model'.sequence
                       = Put(model.sequence, key,
                             sequenceValue(model.sequence, key) + 1)
                 /\ (model.Sequence = NilMap \/ SequenceCovers)
                       => name \notin ExistingNames]_vars

\* A planning call was given two unit names by a model that holds units and
\* no Sequence.
C28_Witness ==
    /\ pc = "alloc"
    /\ model.Sequence = NilMap
    /\ Len(model.Applications["django"].Units) = 2
    /\ Len(calls[1].out) = MaxCalls
    /\ \A k \in 1..Len(calls[1].out) : calls[1].out[k].call.fn = "nextUnit"

\* The bundle machines that the run i of InferMachineMap has mapped: the
\* keys that the MachineMap of the caller did not hold.
Inferred(i) == DOMAIN machineMaps[i] \ DOMAIN model.MachineMap

(***************************************************************************)
(* C29.  InferMachineMap matches an existing machine at most once: no two  *)
(* bundle machines that the call has mapped are mapped to the same         *)
(* existing machine, be it by the first pass (m -> m) or by the main loop.  *)
(***************************************************************************)
C29_ExistingMachineIsMatchedOnce ==
    \A i \in 1..Len(machineMaps) :
       \A a, b \in Inferred(i) :
          a # b => machineMaps[i][a] # machineMaps[i][b]

\* The value is the placeholder of a change that the change c requires.
Placeholder(c, value) ==
    \E r \in Range(c.requires) :
       /\ value = "$" \o r
       /\ \E i \in 1..Len(changes) : changes[i].id = r

\* The value is an endpoint whose application is the placeholder of a
\* change that the change c requires.
EndpointPlaceholder(c, value) ==
    \E r \in Range(c.requires) :
       /\ \/ value = "$" \o r
          \/ \E relation \in {"db", "web"} : value = "$" \o r \o ":" \o relation
       /\ \E i \in 1..Len(changes) : changes[i].id = r

\* Every placeholder in the parameters of the change names a change that it
\* requires.
PlaceholdersRequired(c) ==
    /\ c.method = "deploy" => Placeholder(c, c.Params.Charm)
    /\ c.method = "expose" => Placeholder(c, c.Params.Service)
    /\ c.method = "setAnnotations" => Placeholder(c, c.Params.Id)
    /\ c.method = "addMachines"
          => c.Params.ParentId = "" \/ Placeholder(c, c.Params.ParentId)
    /\ c.method = "addRelation"
          => /\ EndpointPlaceholder(c, c.Params.Endpoint1)
             /\ EndpointPlaceholder(c, c.Params.Endpoint2)
    /\ c.method = "addUnit"
          => /\ Placeholder(c, c.Params.Service)
             /\ c.Params.To = "" \/ Placeholder(c, c.Params.To)

(***************************************************************************)
(* C30.  In every change each `$<id>` placeholder of the parameters (the   *)
(* charm of a deploy, the target of an expose and of a setAnnotations, the *)
(* parent of an addMachines, the application of both endpoints of an       *)
(* addRelation, the application and the target of an addUnit) names a      *)
(* change whose id is in the requires of the change.                        *)
(***************************************************************************)
C30_PlaceholdersAreRequired ==
    /\ \A i \in 1..Len(changes) : PlaceholdersRequired(changes[i])
    /\ \A i \in 1..Len(sorted) : PlaceholdersRequired(sorted[i])

\* FromData returned a plan with a unit placed in a container and a unit
\* placed next to a unit.
C30_Witness ==
    /\ pc = "done"
    /\ \E i, j, k \in 1..Len(sorted) :
          /\ sorted[i].method = "addMachines"
          /\ sorted[i].Params.ParentId # ""
          /\ sorted[j].method = "addUnit"
          /\ sorted[j].Params.To = "$" \o sorted[i].id
          /\ sorted[k].method = "addUnit"
          /\ sorted[i].Params.ParentId = "$" \o sorted[k].id

\* FromData returned a plan with a relation, an exposed service and an
\* annotated machine.
C30_WitnessOfRelation ==
    /\ pc = "done"
    /\ \E i, j, k \in 1..Len(sorted) :
          /\ sorted[i].method = "addRelation"
          /\ sorted[j].method = "expose"
          /\ sorted[k].method = "setAnnotations"
          /\ sorted[k].Params.EntityType = "machine"

====
